---- MODULE Spec2Model ----
(***************************************************************************)
(* Train discovery and booking selection of TripEase:                      *)
(*   pythonservers/train_scraper_and_booker.py   TrainScraper,             *)
(*                                               TrainBookingFlow          *)
(*   pythonservers/train_booking_orchestrator.py TrainBookingOrchestrator  *)
(*   pythonservers/app.py                        POST /api/trains/book     *)
(*   pythonservers/ADK/multi_tool_agent/agent.py get_trains_easemytrip,    *)
(*                                               book_train_complete,      *)
(*                                               _get_railway_station_code *)
(*   outbox/api_server_fixed.py, outbox/gateway.py, outbox/api_server.py,  *)
(*   pythonservers/ADK/app.py                    /api/query                *)
(*   pythonservers/train_booking_handler.py      book_train_interactive    *)
(*                                                                         *)
(* Python strings are TLA+ strings, handled character by character; a      *)
(* dict is a record; None is the empty tuple and a present value x is the  *)
(* one-element tuple <<x>>.  The operators on characters, strings,         *)
(* optional values and tables (Char, Upper, Lower, Join, Truthy, OrElse,   *)
(* Keys, Get, ...) are those of Python itself: str methods, truth values,  *)
(* the classes of re, dict lookup.                                         *)
(***************************************************************************)
EXTENDS Integers, Sequences, FiniteSets, TLC

VARIABLES
    flow,       \* the TrainBookingFlow object: trains, selected_train, selected_coach
    call,       \* the operation called last and its arguments
    ret,        \* the dict that operation returned
    confirmed,  \* history: the summary of the last successful get_booking_summary
    reselected, \* history: a select_* call succeeded since that summary
    orch,       \* the TrainBookingOrchestrator object: flow, selected_train,
                \* selected_coach, browser, page
    pw,         \* what Playwright holds: browser, context, page, visited, clicks
    scrape,     \* get_trains_easemytrip: its position (pc) and the locals of its loop
    gateway,    \* a gateway process: its variant, its conversations and the requests
                \* its threads are handling
    handler     \* book_train_interactive: its position (pc) and its TrainBookingHandler

vars == <<flow, call, ret, confirmed, reselected, orch, pw, scrape, gateway, handler>>

(***************************************************************************)
(* Bounds of the model.                                                    *)
(***************************************************************************)
\* the largest number of candidate containers on one page
MaxCards == 2

None == <<>>
Some(x) == <<x>>
\* Python truthiness of an Optional[str]: None and "" are falsy
Truthy(o) == o # None /\ o[1] # ""
\* Python truthiness of an Optional[dict] whose dicts have keys: None is falsy
TruthyDict(o) == o # None

(***************************************************************************)
(* str methods and the regular expressions of the scrapers.                *)
(***************************************************************************)
Char(s, i) == SubSeq(s, i, i)

Digits == {"0", "1", "2", "3", "4", "5", "6", "7", "8", "9"}
LowerLetters == "abcdefghijklmnopqrstuvwxyz"
UpperLetters == "ABCDEFGHIJKLMNOPQRSTUVWXYZ"
Whitespace == {" "}

IsDigit(c) == c \in Digits
IsSpace(c) == c \in Whitespace

LetterPos(c, letters) ==
    IF \E k \in 1..Len(letters) : Char(letters, k) = c
    THEN CHOOSE k \in 1..Len(letters) : Char(letters, k) = c
    ELSE 0

\* \w of Python's re on str
IsWordChar(c) ==
    IsDigit(c) \/ c = "_" \/ LetterPos(c, LowerLetters) > 0 \/ LetterPos(c, UpperLetters) > 0

UpperChar(c) ==
    LET k == LetterPos(c, LowerLetters) IN IF k > 0 THEN Char(UpperLetters, k) ELSE c

LowerChar(c) ==
    LET k == LetterPos(c, UpperLetters) IN IF k > 0 THEN Char(LowerLetters, k) ELSE c

RECURSIVE Upper(_)
\* str.upper()
Upper(s) == IF s = "" THEN "" ELSE UpperChar(Head(s)) \o Upper(Tail(s))

RECURSIVE Lower(_)
\* str.lower()
Lower(s) == IF s = "" THEN "" ELSE LowerChar(Head(s)) \o Lower(Tail(s))

RECURSIVE LStrip(_)
LStrip(s) == IF s # "" /\ IsSpace(Head(s)) THEN LStrip(Tail(s)) ELSE s

RECURSIVE RStrip(_)
RStrip(s) ==
    IF s # "" /\ IsSpace(Char(s, Len(s))) THEN RStrip(SubSeq(s, 1, Len(s) - 1)) ELSE s

\* str.strip()
Strip(s) == RStrip(LStrip(s))

\* needle in hay
Contains(hay, needle) ==
    \E i \in 1..(Len(hay) - Len(needle) + 1) : SubSeq(hay, i, i + Len(needle) - 1) = needle

\* hay.find(needle), 0-based, -1 when absent
Find(hay, needle) ==
    IF Contains(hay, needle)
    THEN (CHOOSE i \in 1..(Len(hay) - Len(needle) + 1) :
              /\ SubSeq(hay, i, i + Len(needle) - 1) = needle
              /\ \A j \in 1..(i - 1) : SubSeq(hay, j, j + Len(needle) - 1) # needle) - 1
    ELSE -1

RECURSIVE Join(_, _)
\* sep.join(parts)
Join(parts, sep) ==
    IF parts = <<>> THEN ""
    ELSE IF Len(parts) = 1 THEN parts[1]
    ELSE parts[1] \o sep \o Join(Tail(parts), sep)

\* the smallest element of a non-empty set of integers
Min(S) == CHOOSE m \in S : \A n \in S : m <= n

RECURSIVE RunEnd(_, _)
\* the position of the last digit of the digit run that holds position i
RunEnd(s, i) == IF i < Len(s) /\ IsDigit(Char(s, i + 1)) THEN RunEnd(s, i + 1) ELSE i

RECURSIVE SpaceEnd(_, _)
\* \s* from position i: the first position at or after i that holds no whitespace
SpaceEnd(s, i) == IF i <= Len(s) /\ IsSpace(Char(s, i)) THEN SpaceEnd(s, i + 1) ELSE i

\* r'\b(\d{4,5})\b' matches at i: a run of 4 or 5 digits between two word boundaries
TrainNumAt(s, i) ==
    /\ IsDigit(Char(s, i))
    /\ i = 1 \/ ~IsWordChar(Char(s, i - 1))
    /\ RunEnd(s, i) - i + 1 \in {4, 5}
    /\ RunEnd(s, i) = Len(s) \/ ~IsWordChar(Char(s, RunEnd(s, i) + 1))

\* re.search(r'\b(\d{4,5})\b', text): group(1) of the leftmost match, None without one
SearchTrainNum(s) ==
    LET at == {i \in 1..Len(s) : TrainNumAt(s, i)}
    IN  IF at = {} THEN None ELSE Some(SubSeq(s, Min(at), RunEnd(s, Min(at))))

\* the length of the match of r'(\d{1,2}):(\d{2})' at i, 0 without one
TimeAt(s, i) ==
    IF /\ i + 4 <= Len(s)
       /\ IsDigit(Char(s, i)) /\ IsDigit(Char(s, i + 1)) /\ Char(s, i + 2) = ":"
       /\ IsDigit(Char(s, i + 3)) /\ IsDigit(Char(s, i + 4))
    THEN 5
    ELSE IF /\ i + 3 <= Len(s)
            /\ IsDigit(Char(s, i)) /\ Char(s, i + 1) = ":"
            /\ IsDigit(Char(s, i + 2)) /\ IsDigit(Char(s, i + 3))
    THEN 4
    ELSE 0

RECURSIVE FindTimesFrom(_, _)
FindTimesFrom(s, i) ==
    IF i > Len(s) THEN <<>>
    ELSE IF TimeAt(s, i) > 0
    THEN <<SubSeq(s, i, i + TimeAt(s, i) - 1)>> \o FindTimesFrom(s, i + TimeAt(s, i))
    ELSE FindTimesFrom(s, i + 1)

\* re.findall(r'(\d{1,2}):(\d{2})', text), each match as the string "H:MM" that
\* f"{t[0]}:{t[1]}" rebuilds from its two groups
FindTimes(s) == FindTimesFrom(s, 1)

RECURSIVE CommaGroupsEnd(_, _)
\* (?:,\d{3})* after a digit run that ends at e: the end of the last ",ddd" group
CommaGroupsEnd(s, e) ==
    IF /\ e + 4 <= Len(s)
       /\ Char(s, e + 1) = ","
       /\ IsDigit(Char(s, e + 2)) /\ IsDigit(Char(s, e + 3)) /\ IsDigit(Char(s, e + 4))
    THEN CommaGroupsEnd(s, e + 4)
    ELSE e

\* re.findall(r'₹?\s*(\d+(?:,\d{3})*)', text)[0]: the leftmost match holds the first
\* digit of the text, and its group is that digit run with its ",ddd" groups
FirstPrice(s) ==
    LET at == {i \in 1..Len(s) : IsDigit(Char(s, i))}
    IN  IF at = {} THEN None
        ELSE Some(SubSeq(s, Min(at), CommaGroupsEnd(s, RunEnd(s, Min(at)))))

\* the position after an optional character c (ignoring case) at p
Opt(s, p, c) == IF p <= Len(s) /\ LowerChar(Char(s, p)) = c THEN p + 1 ELSE p

\* the position after an optional digit run at p
OptDigits(s, p) == IF p <= Len(s) /\ IsDigit(Char(s, p)) THEN RunEnd(s, p) + 1 ELSE p

\* TrainScraper.extract_duration: r'(\d+)\s*(?:h|hr|hour)s?\s*(\d+)?\s*(?:m|min)?' with
\* re.IGNORECASE. The alternatives "h" and "m" match first and everything after them is
\* optional, so "hr", "hour" and "min" are never taken. group(0).strip()
extract_duration(s) ==
    LET hPos(i) == SpaceEnd(s, RunEnd(s, i) + 1)
        at == {i \in 1..Len(s) : /\ IsDigit(Char(s, i))
                                 /\ hPos(i) <= Len(s)
                                 /\ LowerChar(Char(s, hPos(i))) = "h"}
    IN  IF at = {} THEN None
        ELSE LET i  == Min(at)
                 p1 == Opt(s, hPos(i) + 1, "s")
                 p2 == OptDigits(s, SpaceEnd(s, p1))
                 p3 == Opt(s, SpaceEnd(s, p2), "m")
             IN  Some(Strip(SubSeq(s, i, p3 - 1)))

\* s has `word` at position i, ignoring case
HasAt(s, i, word) ==
    i + Len(word) - 1 <= Len(s) /\ Lower(SubSeq(s, i, i + Len(word) - 1)) = word

\* re.search(r'(\d+)\s*(?:seats?|available)', text, re.IGNORECASE): group(1)
SearchSeats(s) ==
    LET wPos(i) == SpaceEnd(s, RunEnd(s, i) + 1)
        at == {i \in 1..Len(s) : /\ IsDigit(Char(s, i))
                                 /\ HasAt(s, wPos(i), "seat") \/ HasAt(s, wPos(i), "available")}
    IN  IF at = {} THEN None ELSE Some(SubSeq(s, Min(at), RunEnd(s, Min(at))))

\* s[:n]
Prefix(s, n) == SubSeq(s, 1, IF Len(s) < n THEN Len(s) ELSE n)

\* text.split(sep)[0]
SplitFirst(s, sep) == IF Find(s, sep) = -1 THEN s ELSE SubSeq(s, 1, Find(s, sep))

\* x or default
OrElse(o, default) == IF Truthy(o) THEN o[1] ELSE default

\* any(x in text.lower() for x in keywords)
AnyKeyword(text, keywords) == \E k \in keywords : Contains(Lower(text), k)

(***************************************************************************)
(* The listing page. A page is what requests.get gives: a failed fetch, or  *)
(* the candidate containers that BeautifulSoup's find_all selects, in       *)
(* document order. A container is its tag and its stripped, non-empty text  *)
(* nodes, which get_text(separator, strip=True) joins.                      *)
(***************************************************************************)
CardA == [tag |-> "div",
          nodes |-> <<"12345", "Godavari Express", "10:00", "14:30", "8h 15m", "₹450", "2A", "3A">>]
\* the same train number as CardA, and no class code in its text
CardB == [tag |-> "tr",
          nodes |-> <<"12345", "Godavari Express", "18:20", "23:05", "₹520", "42 seats">>]
\* a single time of day
CardC == [tag |-> "div",
          nodes |-> <<"22222", "Shatabdi Chair Car", "06:15", "CC", "₹1,250", "7 available">>]
\* page chrome
CardD == [tag |-> "div",
          nodes |-> <<"Search trains", "12345", "10:00", "14:30", "Sort by price and filter">>]
\* too short
CardE == [tag |-> "tr", nodes |-> <<"12345", "10:00">>]

Cards == {CardA, CardB, CardC, CardD, CardE}

RECURSIVE SeqsUpTo(_, _)
\* the sequences over S of length at most n
SeqsUpTo(S, n) ==
    IF n = 0 THEN {<<>>}
    ELSE SeqsUpTo(S, n - 1) \cup {Append(q, x) : q \in SeqsUpTo(S, n - 1), x \in S}

FetchErrors == {"HTTPSConnectionPool: Read timed out"}

Pages ==
    {[fetch |-> "ok", cards |-> cs] : cs \in SeqsUpTo(Cards, MaxCards)}
        \cup {[fetch |-> e, cards |-> <<>>] : e \in FetchErrors}

(***************************************************************************)
(* TrainScraper (train_scraper_and_booker.py)                               *)
(***************************************************************************)
\* the limit of the scrape loops ("Limit to 20 trains")
TrainLimit == 20
\* "Skip if too small"
MinTextLen == 50

ScraperCoachCodes == <<"SL", "3A", "2A", "1A", "CC", "FC">>
DefaultCoaches == <<"SL", "3A", "2A", "1A">>

\* TrainScraper.COACH_TYPES.get(code, code)
COACH_TYPES(code) ==
    CASE code = "SL" -> "Sleeper"
      [] code = "3A" -> "3rd AC"
      [] code = "2A" -> "2nd AC"
      [] code = "1A" -> "1st AC"
      [] code = "CC" -> "Chair Car"
      [] code = "FC" -> "First Class"
      [] code = "EC" -> "Executive Chair"
      [] OTHER -> code

\* a train_data dict whose coaches_available are only the codes found in the text
TrainData_nodefault(text, n) ==
    LET times == FindTimes(text)
        found == SelectSeq(ScraperCoachCodes, LAMBDA c : Contains(Upper(text), c))
    IN  [index |-> n,
         train_number |-> SearchTrainNum(text)[1],
         train_name |-> Prefix(SplitFirst(text, " | "), 100),
         departure |-> IF Len(times) > 0 THEN times[1] ELSE "TBD",
         arrival |-> IF Len(times) > 1 THEN times[2] ELSE "TBD",
         duration |-> OrElse(extract_duration(text), "N/A"),
         price_from |-> OrElse(FirstPrice(text), "Contact"),
         seats_available |-> OrElse(SearchSeats(text), "Multiple"),
         coaches_available |-> found,
         rating |-> "4.0"]

\* the train_data dict that one accepted container gives, with index n
TrainData(text, n) ==
    LET times == FindTimes(text)
        found == SelectSeq(ScraperCoachCodes, LAMBDA c : Contains(Upper(text), c))
    IN  [index |-> n,
         train_number |-> SearchTrainNum(text)[1],
         train_name |-> Prefix(SplitFirst(text, " | "), 100),
         departure |-> IF Len(times) > 0 THEN times[1] ELSE "TBD",
         arrival |-> IF Len(times) > 1 THEN times[2] ELSE "TBD",
         duration |-> OrElse(extract_duration(text), "N/A"),
         price_from |-> OrElse(FirstPrice(text), "Contact"),
         seats_available |-> OrElse(SearchSeats(text), "Multiple"),
         coaches_available |-> IF found = <<>> THEN DefaultCoaches ELSE found,
         rating |-> "4.0"]

\* "Skip if too small or contains common non-train text", and the train number
Accepts(text) ==
    /\ ~(Len(text) < MinTextLen)
    /\ ~AnyKeyword(text, {"search", "filter", "sort", "view all"})
    /\ SearchTrainNum(text) # None

\* the loop "for idx, container in enumerate(train_containers)" before its first
\* iteration
ContainersStart(page) ==
    [train_containers |-> page.cards, idx |-> 0, trains |-> <<>>, stopped |-> FALSE]

ContainersDone(st) == st.stopped \/ st.idx >= Len(st.train_containers)

\* one iteration of a loop that numbers a train by the position of its container
ContainerStep_position(st) ==
    LET text == Join(st.train_containers[st.idx + 1].nodes, " | ")
    IN  IF ~Accepts(text) THEN [st EXCEPT !.idx = st.idx + 1]
        ELSE LET trains == Append(st.trains, TrainData(text, st.idx))
             IN  [st EXCEPT !.idx = st.idx + 1,
                            !.trains = trains,
                            !.stopped = Len(trains) >= TrainLimit]

\* one iteration of the loop: the container at idx is skipped or accepted
ContainerStep(st) ==
    LET text == Join(st.train_containers[st.idx + 1].nodes, " | ")
    IN  IF ~Accepts(text) THEN [st EXCEPT !.idx = st.idx + 1]
        ELSE LET trains == Append(st.trains, TrainData(text, Len(st.trains)))
             IN  [st EXCEPT !.idx = st.idx + 1,
                            !.trains = trains,
                            !.stopped = Len(trains) >= TrainLimit]

RECURSIVE ScrapeLoop(_, _, _)
\* the loop over train_containers from position i, with the trains accepted so far
ScrapeLoop(containers, i, trains) ==
    IF i > Len(containers) THEN trains
    ELSE LET text == Join(containers[i].nodes, " | ")
         IN  IF ~Accepts(text) THEN ScrapeLoop(containers, i + 1, trains)
             ELSE LET next == Append(trains, TrainData(text, Len(trains)))
                  IN  IF Len(next) >= TrainLimit THEN next
                      ELSE ScrapeLoop(containers, i + 1, next)

\* what scrape_trains returns once the loop has ended with these trains
ScrapeResult(trains) ==
    [status |-> IF trains # <<>> THEN "success" ELSE "partial",
     total_trains |-> Len(trains),
     trains |-> trains,
     message |-> "Found " \o ToString(Len(trains))
                     \o " trains. Please select one and choose a coach class."]

\* what scrape_trains returns when the fetch or the parse raised
ScrapeError(page) ==
    [status |-> "error",
     error |-> page.fetch,
     trains |-> <<>>,
     message |-> "Error scraping trains: " \o page.fetch]

\* TrainScraper.scrape_trains(url), of the page the url serves
scrape_trains(page) ==
    IF page.fetch # "ok" THEN ScrapeError(page)
    ELSE ScrapeResult(ScrapeLoop(page.cards, 1, <<>>))

\* scrape_trains of every page, computed once
Scraped == [p \in Pages |-> scrape_trains(p)]

\* one page for each result that scrape_trains can give
ScrapePages == {CHOOSE p \in Pages : Scraped[p] = r : r \in {Scraped[q] : q \in Pages}}

(***************************************************************************)
(* TrainBookingFlow (train_scraper_and_booker.py). Each method is given as  *)
(* the object after the call (self) and the dict returned (ret).            *)
(***************************************************************************)
\* TrainBookingFlow.__init__
NewFlow == [trains |-> <<>>, selected_train |-> None, selected_coach |-> None]

fetch_trains(self, page) ==
    LET result == Scraped[page]
    IN  [self |-> [self EXCEPT !.trains = result.trains], ret |-> result]

\* select_train with an out-of-range index clamped to the last train before the error
select_train_clamped(self, train_index) ==
    IF 0 <= train_index /\ train_index < Len(self.trains)
    THEN [self |-> [self EXCEPT !.selected_train = Some(self.trains[train_index + 1])],
          ret |-> [status |-> "success",
                   train |-> self.trains[train_index + 1],
                   message |-> "Selected Train",
                   available_coaches |-> self.trains[train_index + 1].coaches_available]]
    ELSE [self |-> IF self.trains = <<>> THEN self
                   ELSE [self EXCEPT !.selected_train = Some(self.trains[Len(self.trains)])],
          ret |-> [status |-> "error",
                   message |-> "Invalid train index. Please select 0-"
                                   \o ToString(Len(self.trains) - 1)]]

select_train(self, train_index) ==
    IF 0 <= train_index /\ train_index < Len(self.trains)
    THEN LET train == self.trains[train_index + 1]
         IN  [self |-> [self EXCEPT !.selected_train = Some(train)],
              ret |-> [status |-> "success",
                       train |-> train,
                       message |-> "Selected Train " \o train.train_number \o " - "
                                       \o train.train_name,
                       available_coaches |-> train.coaches_available]]
    ELSE [self |-> self,
          ret |-> [status |-> "error",
                   message |-> "Invalid train index. Please select 0-"
                                   \o ToString(Len(self.trains) - 1)]]

\* select_coach that validates the class only once a train is selected
select_coach_unguarded(self, coach_class) ==
    LET coach_upper == Strip(Upper(coach_class))
        ok == [status |-> "success", coach_class |-> coach_upper]
    IN  IF ~TruthyDict(self.selected_train)
        THEN [self |-> [self EXCEPT !.selected_coach = Some(coach_upper)], ret |-> ok]
        ELSE IF \A k \in 1..Len(self.selected_train[1].coaches_available) :
                    self.selected_train[1].coaches_available[k] # coach_upper
        THEN [self |-> self,
              ret |-> [status |-> "error",
                       message |-> "Coach " \o coach_upper
                                       \o " not available for this train. Available: "
                                       \o Join(self.selected_train[1].coaches_available, ", "),
                       available_coaches |-> self.selected_train[1].coaches_available]]
        ELSE [self |-> [self EXCEPT !.selected_coach = Some(coach_upper)], ret |-> ok]

\* select_coach that upper-cases the class and does not strip it
select_coach_unstripped(self, coach_class) ==
    LET coach_upper == Upper(coach_class)
        ok == [status |-> "success", coach_class |-> coach_upper]
    IN  IF ~TruthyDict(self.selected_train)
        THEN [self |-> self,
              ret |-> [status |-> "error", message |-> "Please select a train first"]]
        ELSE IF \A k \in 1..Len(self.selected_train[1].coaches_available) :
                    self.selected_train[1].coaches_available[k] # coach_upper
        THEN [self |-> self,
              ret |-> [status |-> "error",
                       message |-> "Coach " \o coach_upper
                                       \o " not available for this train. Available: "
                                       \o Join(self.selected_train[1].coaches_available, ", "),
                       available_coaches |-> self.selected_train[1].coaches_available]]
        ELSE [self |-> [self EXCEPT !.selected_coach = Some(coach_upper)], ret |-> ok]

\* select_coach that stores the class before it checks it
select_coach_stored_first(self, coach_class) ==
    LET coach_upper == Strip(Upper(coach_class))
        stored == [self EXCEPT !.selected_coach = Some(coach_upper)]
    IN  IF ~TruthyDict(self.selected_train)
        THEN [self |-> self,
              ret |-> [status |-> "error", message |-> "Please select a train first"]]
        ELSE IF \A k \in 1..Len(self.selected_train[1].coaches_available) :
                    self.selected_train[1].coaches_available[k] # coach_upper
        THEN [self |-> stored,
              ret |-> [status |-> "error",
                       message |-> "Coach " \o coach_upper
                                       \o " not available for this train. Available: "
                                       \o Join(self.selected_train[1].coaches_available, ", "),
                       available_coaches |-> self.selected_train[1].coaches_available]]
        ELSE [self |-> stored, ret |-> [status |-> "success", coach_class |-> coach_upper]]

select_coach(self, coach_class) ==
    IF ~TruthyDict(self.selected_train)
    THEN [self |-> self,
          ret |-> [status |-> "error", message |-> "Please select a train first"]]
    ELSE LET coach_upper == Strip(Upper(coach_class))
             train == self.selected_train[1]
         IN  IF \A k \in 1..Len(train.coaches_available) :
                    train.coaches_available[k] # coach_upper
             THEN [self |-> self,
                   ret |-> [status |-> "error",
                            message |-> "Coach " \o coach_upper
                                            \o " not available for this train. Available: "
                                            \o Join(train.coaches_available, ", "),
                            available_coaches |-> train.coaches_available]]
             ELSE [self |-> [self EXCEPT !.selected_coach = Some(coach_upper)],
                   ret |-> [status |-> "success",
                            train_number |-> train.train_number,
                            train_name |-> train.train_name,
                            coach_class |-> coach_upper,
                            coach_name |-> COACH_TYPES(coach_upper),
                            message |-> "Selected " \o COACH_TYPES(coach_upper) \o " ("
                                            \o coach_upper \o ") for Train "
                                            \o train.train_number]]

\* get_booking_summary that copies the departure into the arrival
get_booking_summary_swapped(self) ==
    IF ~TruthyDict(self.selected_train) \/ ~Truthy(self.selected_coach)
    THEN [self |-> self,
          ret |-> [status |-> "error",
                   message |-> "Incomplete booking details. Please select train and coach."]]
    ELSE [self |-> self,
          ret |-> [status |-> "success",
                   summary |-> [train_number |-> self.selected_train[1].train_number,
                                train_name |-> self.selected_train[1].train_name,
                                departure |-> self.selected_train[1].departure,
                                arrival |-> self.selected_train[1].departure,
                                duration |-> self.selected_train[1].duration,
                                coach_class |-> self.selected_coach[1],
                                coach_name |-> COACH_TYPES(self.selected_coach[1]),
                                price_from |-> self.selected_train[1].price_from],
                   message |-> "Ready to proceed with booking. Please confirm to continue."]]

get_booking_summary(self) ==
    IF ~TruthyDict(self.selected_train) \/ ~Truthy(self.selected_coach)
    THEN [self |-> self,
          ret |-> [status |-> "error",
                   message |-> "Incomplete booking details. Please select train and coach."]]
    ELSE LET train == self.selected_train[1]
             coach == self.selected_coach[1]
         IN  [self |-> self,
              ret |-> [status |-> "success",
                       summary |-> [train_number |-> train.train_number,
                                    train_name |-> train.train_name,
                                    departure |-> train.departure,
                                    arrival |-> train.arrival,
                                    duration |-> train.duration,
                                    coach_class |-> coach,
                                    coach_name |-> COACH_TYPES(coach),
                                    price_from |-> train.price_from],
                       message |-> "Ready to proceed with booking. Please confirm to continue."]]

(***************************************************************************)
(* get_trains_easemytrip (ADK/multi_tool_agent/agent.py)                    *)
(***************************************************************************)
\* find_all(..., limit=50)
CardLimit == 50
\* "Skip if too short"
MinCardTextLen == 20

RECURSIVE PriceCharsEnd(_, _)
\* [,\d]* after position e: the end of the run of digits and commas
PriceCharsEnd(s, e) ==
    IF e < Len(s) /\ (IsDigit(Char(s, e + 1)) \/ Char(s, e + 1) = ",")
    THEN PriceCharsEnd(s, e + 1)
    ELSE e

\* re.search(r'₹\s*(\d+(?:[,\d]*)?(?:\.\d{2})?)', text): group(1)
SearchRupeePrice(s) ==
    LET dPos(i) == SpaceEnd(s, i + 1)
        at == {i \in 1..Len(s) : /\ Char(s, i) = "₹"
                                 /\ dPos(i) <= Len(s)
                                 /\ IsDigit(Char(s, dPos(i)))}
    IN  IF at = {} THEN None
        ELSE LET d == dPos(Min(at))
                 e == PriceCharsEnd(s, RunEnd(s, d))
                 cents == /\ e + 3 <= Len(s)
                          /\ Char(s, e + 1) = "."
                          /\ IsDigit(Char(s, e + 2)) /\ IsDigit(Char(s, e + 3))
             IN  Some(SubSeq(s, d, IF cents THEN e + 3 ELSE e))

\* re.search(r'(\d+h\s*\d*m?)', text): group(1)
SearchHours(s) ==
    LET at == {i \in 1..Len(s) : /\ IsDigit(Char(s, i))
                                 /\ RunEnd(s, i) < Len(s)
                                 /\ Char(s, RunEnd(s, i) + 1) = "h"}
    IN  IF at = {} THEN None
        ELSE LET i == Min(at)
                 p1 == OptDigits(s, SpaceEnd(s, RunEnd(s, i) + 2))
                 p2 == IF p1 <= Len(s) /\ Char(s, p1) = "m" THEN p1 + 1 ELSE p1
             IN  Some(SubSeq(s, i, p2 - 1))

\* the length of the match of r'(\d\.\d|\d\s*\/\s*5)' at i, 0 without one
RatingAt(s, i) ==
    IF ~IsDigit(Char(s, i)) THEN 0
    ELSE IF i + 2 <= Len(s) /\ Char(s, i + 1) = "." /\ IsDigit(Char(s, i + 2)) THEN 3
    ELSE LET slash == SpaceEnd(s, i + 1)
             five == SpaceEnd(s, slash + 1)
         IN  IF /\ slash <= Len(s) /\ Char(s, slash) = "/"
                /\ five <= Len(s) /\ Char(s, five) = "5"
             THEN five - i + 1
             ELSE 0

\* re.search(r'(\d\.\d|\d\s*\/\s*5)', text): group(1)
SearchRating(s) ==
    LET at == {i \in 1..Len(s) : RatingAt(s, i) > 0}
    IN  IF at = {} THEN None ELSE Some(SubSeq(s, Min(at), Min(at) + RatingAt(s, Min(at)) - 1))

\* re.search(r'(\d+)\s*(?:seats?|available|vacancy|seats available)', text, re.I): group(1)
SearchSeatsOrVacancy(s) ==
    LET wPos(i) == SpaceEnd(s, RunEnd(s, i) + 1)
        at == {i \in 1..Len(s) : /\ IsDigit(Char(s, i))
                                 /\ \/ HasAt(s, wPos(i), "seat")
                                    \/ HasAt(s, wPos(i), "available")
                                    \/ HasAt(s, wPos(i), "vacancy")}
    IN  IF at = {} THEN None ELSE Some(SubSeq(s, Min(at), RunEnd(s, Min(at))))

\* "Try to get name from before first time"
NameBefore(text, departure, train_number) ==
    LET first_time_pos == Find(text, departure)
        name_text == Strip(SubSeq(text, 1, first_time_pos))
    IN  IF first_time_pos > 0 /\ Len(name_text) > 0
        THEN Prefix(name_text, 60)
        ELSE "Train " \o train_number

\* the train_data dict of a card that passed every check, with index n
CardTrainData(text, n) ==
    LET time_matches == FindTimes(text)
        train_number == SearchTrainNum(text)[1]
    IN  [index |-> n,
         train_number |-> train_number,
         train_name |-> NameBefore(text, time_matches[1], train_number),
         departure |-> time_matches[1],
         arrival |-> time_matches[2],
         duration |-> OrElse(SearchHours(text), "N/A"),
         price |-> IF SearchRupeePrice(text) # None
                   THEN "₹" \o SearchRupeePrice(text)[1] ELSE "N/A",
         seats |-> OrElse(SearchSeatsOrVacancy(text), "Available"),
         rating |-> OrElse(SearchRating(text), "N/A")]

\* train_cards: the div cards of strategies 1 to 3, then the table rows of strategy 4
TrainCards(page) ==
    Prefix(SelectSeq(page.cards, LAMBDA c : c.tag = "div"), CardLimit)
        \o Prefix(SelectSeq(page.cards, LAMBDA c : c.tag = "tr"), CardLimit)

\* the loop "for idx, card in enumerate(train_cards)" before its first iteration
LoopStart(page) ==
    [train_cards |-> TrainCards(page), idx |-> 0, trains |-> <<>>,
     extracted_train_numbers |-> {}, stopped |-> FALSE]

LoopDone(st) == st.stopped \/ st.idx >= Len(st.train_cards)

\* one iteration of a loop that accepts a card whatever numbers were seen before
LoopStep_unseen(st) ==
    LET text == Join(st.train_cards[st.idx + 1].nodes, " ")
        skip == [st EXCEPT !.idx = st.idx + 1]
        train_number == SearchTrainNum(text)
    IN  IF Len(text) < MinCardTextLen THEN skip
        ELSE IF AnyKeyword(text, {"search", "filter", "sort", "javascript", "search trains"})
        THEN skip
        ELSE IF train_number = None THEN skip
        ELSE IF Len(FindTimes(text)) < 2 THEN skip
        ELSE LET trains == Append(st.trains, CardTrainData(text, Len(st.trains)))
             IN  [st EXCEPT !.idx = st.idx + 1,
                            !.trains = trains,
                            !.stopped = Len(trains) >= TrainLimit]

\* one iteration of a loop that accepts a card with a single time and leaves its
\* arrival open
LoopStep_onetime(st) ==
    LET text == Join(st.train_cards[st.idx + 1].nodes, " ")
        skip == [st EXCEPT !.idx = st.idx + 1]
        train_number == SearchTrainNum(text)
        time_matches == FindTimes(text)
    IN  IF Len(text) < MinCardTextLen THEN skip
        ELSE IF AnyKeyword(text, {"search", "filter", "sort", "javascript", "search trains"})
        THEN skip
        ELSE IF train_number = None THEN skip
        ELSE IF train_number[1] \in st.extracted_train_numbers THEN skip
        ELSE LET seen == st.extracted_train_numbers \cup {train_number[1]}
             IN  IF Len(time_matches) < 1
                 THEN [skip EXCEPT !.extracted_train_numbers = seen]
                 ELSE LET train_data ==
                              IF Len(time_matches) > 1
                              THEN CardTrainData(text, Len(st.trains))
                              ELSE [index |-> Len(st.trains),
                                    train_number |-> train_number[1],
                                    train_name |-> NameBefore(text, time_matches[1],
                                                              train_number[1]),
                                    departure |-> time_matches[1],
                                    arrival |-> "N/A",
                                    duration |-> OrElse(SearchHours(text), "N/A"),
                                    price |-> "N/A",
                                    seats |-> OrElse(SearchSeatsOrVacancy(text), "Available"),
                                    rating |-> OrElse(SearchRating(text), "N/A")]
                          trains == Append(st.trains, train_data)
                      IN  [st EXCEPT !.idx = st.idx + 1,
                                     !.trains = trains,
                                     !.extracted_train_numbers = seen,
                                     !.stopped = Len(trains) >= TrainLimit]

\* one iteration of the loop: the card at idx is skipped or accepted
LoopStep(st) ==
    LET text == Join(st.train_cards[st.idx + 1].nodes, " ")
        skip == [st EXCEPT !.idx = st.idx + 1]
        train_number == SearchTrainNum(text)
    IN  IF Len(text) < MinCardTextLen THEN skip
        ELSE IF AnyKeyword(text, {"search", "filter", "sort", "javascript", "search trains"})
        THEN skip
        ELSE IF train_number = None THEN skip
        ELSE IF train_number[1] \in st.extracted_train_numbers THEN skip
        ELSE LET seen == st.extracted_train_numbers \cup {train_number[1]}
             IN  IF Len(FindTimes(text)) < 2
                 THEN [skip EXCEPT !.extracted_train_numbers = seen]
                 ELSE LET trains == Append(st.trains, CardTrainData(text, Len(st.trains)))
                      IN  [st EXCEPT !.idx = st.idx + 1,
                                     !.trains = trains,
                                     !.extracted_train_numbers = seen,
                                     !.stopped = Len(trains) >= TrainLimit]

RECURSIVE RunLoop(_)
RunLoop(st) == IF LoopDone(st) THEN st ELSE RunLoop(LoopStep(st))

\* the listing url of the route and date asked for
ListingUrl == "https://railways.easemytrip.com/TrainListInfo/ONG-to-HYD/2/04-11-2025"

\* what get_trains_easemytrip returns once the loop has ended with these trains
TrainsResult(trains) ==
    [status |-> "ok",
     trains |-> trains,
     total_trains |-> Len(trains),
     url |-> ListingUrl,
     message |-> "Found " \o ToString(Len(trains)) \o " trains. Select one by index [0-"
                     \o ToString(Len(trains) - 1) \o "] and coach class (SL, 3A, 2A, 1A)."]

\* what get_trains_easemytrip returns when the fetch raised
TrainsError(page) ==
    [status |-> "error", error_message |-> "Failed to fetch trains: " \o page.fetch]

\* get_trains_easemytrip(origin, destination, date), of the page its url serves
get_trains_easemytrip(page) ==
    IF page.fetch # "ok" THEN TrainsError(page)
    ELSE TrainsResult(RunLoop(LoopStart(page)).trains)

\* get_trains_easemytrip of every page, computed once
Fetched == [p \in Pages |-> get_trains_easemytrip(p)]

\* one page for each result that get_trains_easemytrip can give
FetchPages == {CHOOSE p \in Pages : Fetched[p] = r : r \in {Fetched[q] : q \in Pages}}

\* book_train_complete(origin, destination, date, train_index, coach_class) of
\* agent.py, of the page the listing url serves; the messages are given without
\* the pictograph they start with
book_train_complete(page, train_index, coach_class) ==
    LET train_result == Fetched[page]
        trains == train_result.trains
    IN  IF train_result.status # "ok"
        THEN [status |-> "error",
              message |-> "Failed to fetch trains: " \o train_result.error_message]
        ELSE IF trains = <<>>
        THEN [status |-> "error",
              message |-> "No trains found for the given route and date"]
        ELSE IF train_index < 0 \/ train_index >= Len(trains)
        THEN [status |-> "error",
              message |-> "Invalid train index: " \o ToString(train_index)
                              \o ". Please select from [0] to ["
                              \o ToString(Len(trains) - 1) \o "]",
              available_trains |-> Len(trains)]
        ELSE IF coach_class \notin {"SL", "3A", "2A", "1A"}
        THEN [status |-> "error",
              message |-> "Invalid coach class: " \o coach_class
                              \o ". Valid options: SL, 3A, 2A, 1A"]
        ELSE [status |-> "success",
              booking_url |-> train_result.url,
              train |-> trains[train_index + 1],
              coach |-> coach_class,
              message |-> "Train booking ready! Visit the link below to complete payment."]

(***************************************************************************)
(* Playwright, as TrainBookingOrchestrator uses it. pw is what Playwright   *)
(* holds: the browser, its context and its page (none, open or closed),     *)
(* whether the page went to the url, and the clicks made on it. env says    *)
(* which call raises or finds nothing: init is the call of                  *)
(* initialize_playwright that raises, fails the step of the flow that       *)
(* fails, closing the close call that raises.                               *)
(***************************************************************************)
NoPw == [browser |-> "none", context |-> "none", page |-> "none",
         visited |-> FALSE, clicks |-> 0]

AllGood == [init |-> "none", fails |-> "none", closing |-> "none"]

PwEnvs ==
    {AllGood,
     [AllGood EXCEPT !.init = "new_context"],
     [AllGood EXCEPT !.fails = "goto"],
     [AllGood EXCEPT !.closing = "browser"]}

(***************************************************************************)
(* TrainBookingOrchestrator (train_booking_orchestrator.py). Each method is *)
(* given as the object after the call (self), the dict or value returned    *)
(* (ret) and, where it uses Playwright, what Playwright holds after (pw).   *)
(***************************************************************************)
\* TrainBookingOrchestrator.__init__
NewOrchestrator ==
    [flow |-> NewFlow, selected_train |-> None, selected_coach |-> None,
     browser |-> None, page |-> None]

initialize_playwright(self, p, env) ==
    CASE env.init = "launch" ->
             [self |-> self, pw |-> p, ret |-> FALSE]
      [] env.init = "new_context" ->
             [self |-> [self EXCEPT !.browser = Some("browser")],
              pw |-> [p EXCEPT !.browser = "open"], ret |-> FALSE]
      [] env.init = "new_page" ->
             [self |-> [self EXCEPT !.browser = Some("browser")],
              pw |-> [p EXCEPT !.browser = "open", !.context = "open"], ret |-> FALSE]
      [] OTHER ->
             [self |-> [self EXCEPT !.browser = Some("browser"), !.page = Some("page")],
              pw |-> [p EXCEPT !.browser = "open", !.context = "open", !.page = "open"],
              ret |-> TRUE]

\* page.close() and browser.close(), each in its own try; a browser that closes
\* takes its context and its page with it
close_playwright(self, p, env) ==
    LET closed(x) == IF x = "open" THEN "closed" ELSE x
        p1 == IF self.page # None /\ env.closing # "page"
              THEN [p EXCEPT !.page = closed(@)] ELSE p
        p2 == IF self.browser # None /\ env.closing # "browser"
              THEN [p1 EXCEPT !.browser = closed(@), !.context = closed(@),
                              !.page = closed(@)]
              ELSE p1
    IN  [self |-> self, pw |-> p2]

\* scrape_and_display_trains after result = self.flow.fetch_trains()
DisplayTrains(self, result) ==
    LET s1 == [self EXCEPT !.flow = result.self]
    IN  IF result.ret.status # "ok"
        THEN [self |-> s1, ret |-> [status |-> "error", message |-> result.ret.message]]
        ELSE [self |-> s1,
              ret |-> [status |-> "success",
                       trains_count |-> Len(s1.flow.trains),
                       trains |-> s1.flow.trains,
                       message |-> "Found " \o ToString(Len(s1.flow.trains)) \o " trains"]]

scrape_and_display_trains(self, page) == DisplayTrains(self, fetch_trains(self.flow, page))

select_train_and_coach(self, train_index, coach_class) ==
    LET train_result == select_train(self.flow, train_index)
        s1 == [self EXCEPT !.flow = train_result.self]
    IN  IF train_result.ret.status # "ok"
        THEN [self |-> s1,
              ret |-> [status |-> "error", message |-> train_result.ret.message]]
        ELSE LET s2 == [s1 EXCEPT !.selected_train = Some(train_result.ret.train)]
                 coach_result == select_coach(s2.flow, coach_class)
                 s3 == [s2 EXCEPT !.flow = coach_result.self]
             IN  IF coach_result.ret.status # "ok"
                 THEN [self |-> s3,
                       ret |-> [status |-> "error", message |-> coach_result.ret.message]]
                 ELSE LET s4 == [s3 EXCEPT !.selected_coach = Some(coach_class)]
                      IN  [self |-> s4,
                           ret |-> [status |-> "success",
                                    summary |-> get_booking_summary(s4.flow).ret,
                                    train |-> s4.selected_train[1],
                                    coach |-> coach_class,
                                    message |-> "Selection confirmed"]]

navigate_to_trains_page(p, env) ==
    IF env.fails = "goto" THEN [pw |-> p, ret |-> FALSE]
    ELSE [pw |-> [p EXCEPT !.visited = TRUE], ret |-> TRUE]

find_and_click_train(p, env) ==
    IF env.fails = "train" THEN [pw |-> p, ret |-> FALSE]
    ELSE [pw |-> [p EXCEPT !.clicks = @ + 1], ret |-> TRUE]

select_coach_on_page(p, env) ==
    IF env.fails = "coach" THEN [pw |-> p, ret |-> FALSE]
    ELSE [pw |-> [p EXCEPT !.clicks = @ + 1], ret |-> TRUE]

\* the url after the click on Book Now, None when the search for it raised
click_book_now_button(p, env) ==
    IF env.fails = "book" THEN [pw |-> p, ret |-> None]
    ELSE [pw |-> [p EXCEPT !.clicks = @ + 1],
          ret |-> Some("https://railways.easemytrip.com/checkout")]

\* steps 3 to 7 of complete_booking_flow
AutomateCheckout(self, p, env) ==
    LET failed(s, q, message) ==
            [self |-> s, pw |-> q, ret |-> [status |-> "error", message |-> message]]
        init == initialize_playwright(self, p, env)
        goto == navigate_to_trains_page(init.pw, env)
        train == find_and_click_train(goto.pw, env)
        coach == select_coach_on_page(train.pw, env)
        book == click_book_now_button(coach.pw, env)
    IN  IF ~init.ret THEN failed(init.self, init.pw, "Failed to initialize Playwright")
        ELSE IF ~goto.ret
        THEN failed(init.self, goto.pw, "Failed to navigate to trains page")
        ELSE IF ~train.ret THEN failed(init.self, train.pw, "Failed to find/click train")
        ELSE IF ~coach.ret THEN failed(init.self, coach.pw, "Failed to select coach")
        ELSE IF ~Truthy(book.ret)
        THEN failed(init.self, book.pw, "Failed to get booking URL")
        ELSE [self |-> init.self, pw |-> book.pw,
              ret |-> [status |-> "success",
                       booking_url |-> book.ret[1],
                       train |-> self.selected_train[1],
                       coach |-> self.selected_coach[1],
                       message |-> "Booking ready! Visit: " \o book.ret[1]]]

\* the finally of complete_booking_flow, after its try block ended as try
Finally(try, env) ==
    [self |-> close_playwright(try.self, try.pw, env).self,
     pw |-> close_playwright(try.self, try.pw, env).pw,
     ret |-> try.ret]

\* a try block that launches the browser before it looks at the selection
Try_eager(scrape_result, p, env) ==
    [self |-> initialize_playwright(scrape_result.self, p, env).self,
     pw |-> initialize_playwright(scrape_result.self, p, env).pw,
     ret |-> IF scrape_result.ret.status # "success" THEN scrape_result.ret
             ELSE [status |-> "error",
                   message |-> "No train/coach selected. Call select_train_and_coach() first"]]

\* the try block of complete_booking_flow, after scrape_result =
\* self.scrape_and_display_trains()
Try(scrape_result, p, env) ==
    LET s1 == scrape_result.self
        failed(message) ==
            [self |-> s1, pw |-> p, ret |-> [status |-> "error", message |-> message]]
    IN  IF scrape_result.ret.status # "success"
        THEN [self |-> s1, pw |-> p, ret |-> scrape_result.ret]
        ELSE IF s1.flow.trains = <<>> THEN failed("No trains found")
        ELSE IF ~TruthyDict(s1.selected_train) \/ ~Truthy(s1.selected_coach)
        THEN failed("No train/coach selected. Call select_train_and_coach() first")
        ELSE AutomateCheckout(s1, p, env)

complete_booking_flow(self, page, p, env) ==
    Finally(Try(scrape_and_display_trains(self, page), p, env), env)

(***************************************************************************)
(* POST /api/trains/book (app.py). data is the JSON body: None without one, *)
(* else url, train_index (None when left out) and coach_class ("" when      *)
(* left out). The handler's orchestrator is its own; what is left of the    *)
(* request is the response and what Playwright holds.                       *)
(***************************************************************************)
\* run_booking after selection_result = orchestrator.select_train_and_coach(...)
BookSelected(selection_result, page, p, env) ==
    IF selection_result.ret.status # "success"
    THEN [self |-> selection_result.self, pw |-> p,
          ret |-> [status |-> "error", message |-> selection_result.ret.message]]
    ELSE complete_booking_flow(selection_result.self, page, p, env)

\* run_booking after scrape_result = orchestrator.scrape_and_display_trains()
BookScraped(scrape_result, page, train_index, coach_class, p, env) ==
    LET trains_list == scrape_result.ret.trains
        error(message) ==
            [self |-> scrape_result.self, pw |-> p,
             ret |-> [status |-> "error", message |-> message]]
    IN  IF scrape_result.ret.status # "success" THEN error(scrape_result.ret.message)
        ELSE IF trains_list = <<>> THEN error("No trains found for the given route")
        ELSE IF train_index < 0 \/ train_index >= Len(trains_list)
        THEN [self |-> scrape_result.self, pw |-> p,
              ret |-> [status |-> "error",
                       message |-> "Invalid train_index: " \o ToString(train_index)
                                       \o ". Available: 0-"
                                       \o ToString(Len(trains_list) - 1),
                       trains |-> trains_list]]
        ELSE IF coach_class \notin {"SL", "3A", "2A", "1A"}
        THEN error("Invalid coach: " \o coach_class \o ". Valid: SL, 3A, 2A, 1A")
        ELSE BookSelected(select_train_and_coach(scrape_result.self, train_index,
                                                 coach_class),
                          page, p, env)

run_booking(page, train_index, coach_class, p, env) ==
    BookScraped(scrape_and_display_trains(NewOrchestrator, page),
                page, train_index, coach_class, p, env)

\* jsonify(result), 200
Respond(result) == [pw |-> result.pw, ret |-> [code |-> 200, json |-> result.ret]]

\* the handler: the response is the JSON body (json) and the HTTP status (code)
book_train(data, page, p, env) ==
    IF data = None
    THEN [pw |-> p,
          ret |-> [code |-> 400,
                   json |-> [status |-> "error", message |-> "No JSON data provided"]]]
    ELSE IF Strip(data[1].url) = "" \/ data[1].train_index = None
            \/ Strip(data[1].coach_class) = ""
    THEN [pw |-> p,
          ret |-> [code |-> 400,
                   json |-> [status |-> "error",
                             message |-> "Missing required fields: url, train_index, coach_class"]]]
    ELSE Respond(run_booking(page, data[1].train_index[1], Strip(data[1].coach_class),
                             p, env))

(***************************************************************************)
(* The callers' inputs.                                                     *)
(***************************************************************************)
\* train_index: every index of the largest catalog, and one below and one above
TrainIndexes == (0 - 1)..MaxCards
\* coach_class, as callers type it
CoachInputs == {"2A", " 3a ", "sl", "9Z", "CC"}

NoCall == [op |-> "none"]
NoRet == [status |-> "none"]
\* get_trains_easemytrip is not running
NoScrape == [pc |-> "idle"]
\* no gateway process is running
NoGateway == [variant |-> "none"]
\* book_train_interactive is not running
NoHandler == [pc |-> "idle"]

(***************************************************************************)
(* A TrainBookingFlow and a client that calls its methods in any order.     *)
(***************************************************************************)
InitFlow ==
    /\ flow = NewFlow
    /\ call = NoCall
    /\ ret = NoRet
    /\ confirmed = None
    /\ reselected = FALSE
    /\ orch = NewOrchestrator
    /\ pw = NoPw
    /\ scrape = NoScrape
    /\ gateway = NoGateway
    /\ handler = NoHandler

\* the four methods, called with any argument; the history variables are left to
\* the specification
CallFetchTrains ==
    \E page \in ScrapePages :
      \E r \in {fetch_trains(flow, page)} :
        /\ flow' = r.self
        /\ ret' = r.ret
        /\ call' = [op |-> "fetch_trains"]
        /\ UNCHANGED <<orch, pw, scrape, gateway, handler>>

CallSelectTrain ==
    \E train_index \in TrainIndexes :
      \E r \in {select_train(flow, train_index)} :
        /\ flow' = r.self
        /\ ret' = r.ret
        /\ call' = [op |-> "select_train", train_index |-> train_index]
        /\ UNCHANGED <<orch, pw, scrape, gateway, handler>>

CallSelectCoach ==
    \E coach_class \in CoachInputs :
      \E r \in {select_coach(flow, coach_class)} :
        /\ flow' = r.self
        /\ ret' = r.ret
        /\ call' = [op |-> "select_coach", coach_class |-> coach_class]
        /\ UNCHANGED <<orch, pw, scrape, gateway, handler>>

CallGetBookingSummary ==
    /\ \E r \in {get_booking_summary(flow)} :
           flow' = r.self /\ ret' = r.ret
    /\ call' = [op |-> "get_booking_summary"]
    /\ UNCHANGED <<orch, pw, scrape, gateway, handler>>

FetchTrains == CallFetchTrains /\ UNCHANGED <<confirmed, reselected>>

SelectTrain == CallSelectTrain /\ UNCHANGED <<confirmed, reselected>>

SelectCoach == CallSelectCoach /\ UNCHANGED <<confirmed, reselected>>

GetBookingSummary == CallGetBookingSummary /\ UNCHANGED <<confirmed, reselected>>

NextFlow == FetchTrains \/ SelectTrain \/ SelectCoach \/ GetBookingSummary

SpecFlow == InitFlow /\ [][NextFlow]_vars

(***************************************************************************)
(* The same client, with the history of its summaries: confirmed is the     *)
(* summary that the last successful get_booking_summary returned (again:    *)
(* an earlier one had succeeded and no select call had succeeded since),    *)
(* and reselected tells whether a select_train or select_coach call has     *)
(* succeeded since.                                                         *)
(***************************************************************************)
Succeeded == ret'.status = "success"

FetchTrainsAfter == CallFetchTrains /\ UNCHANGED <<confirmed, reselected>>

SelectTrainAfter ==
    /\ CallSelectTrain
    /\ reselected' = (reselected \/ (Succeeded /\ confirmed # None))
    /\ UNCHANGED confirmed

SelectCoachAfter ==
    /\ CallSelectCoach
    /\ reselected' = (reselected \/ (Succeeded /\ confirmed # None))
    /\ UNCHANGED confirmed

GetBookingSummaryAfter ==
    /\ CallGetBookingSummary
    /\ confirmed' = IF Succeeded
                    THEN Some([summary |-> ret'.summary,
                               again |-> confirmed # None /\ ~reselected])
                    ELSE confirmed
    /\ reselected' = IF Succeeded THEN FALSE ELSE reselected

NextConfirm ==
    FetchTrainsAfter \/ SelectTrainAfter \/ SelectCoachAfter \/ GetBookingSummaryAfter

SpecConfirm == InitFlow /\ [][NextConfirm]_vars

(***************************************************************************)
(* Properties of TrainBookingFlow.                                          *)
(***************************************************************************)
\* the elements of a list
Elements(list) == {list[k] : k \in 1..Len(list)}

\* the code as the caller means it: trimmed, then upper-cased
Normalized(code) == Upper(Strip(code))

\* every fare class code the repository names
FareClassCodes == {"SL", "3A", "2A", "1A", "CC", "FC", "EC"}

\* what a message says after its marker
After(message, marker) ==
    SubSeq(message, Find(message, marker) + Len(marker) + 1, Len(message))

\* C2: select_coach called while no train is selected fails and stores no class, and in
\* every state a selected class implies a selected train.
C2_CoachRequiresTrain ==
    /\ flow.selected_coach # None => flow.selected_train # None
    /\ call.op = "select_coach" /\ flow.selected_train = None
           => ret.status = "error" /\ flow.selected_coach = None

C2_Witness ==
    /\ call.op = "select_coach"
    /\ flow.trains # <<>>
    /\ flow.selected_train = None
    /\ ret.status = "error"

\* C3: with a train selected, select_coach(code) succeeds iff the trimmed, upper-cased
\* code is one of the train's coaches_available; on success that code is the stored
\* class, on failure the message lists exactly the train's classes.
C3_SelectCoachIffAvailable ==
    [][call'.op = "select_coach" /\ flow.selected_train # None
           => LET code == Normalized(call'.coach_class)
                  available == flow.selected_train[1].coaches_available
              IN  /\ ret'.status = "success" <=> code \in Elements(available)
                  /\ ret'.status = "success" => flow'.selected_coach = Some(code)
                  /\ ret'.status # "success"
                         => /\ ret'.status = "error"
                            /\ \E listed \in {After(ret'.message, "Available: ")} :
                                   \A c \in FareClassCodes :
                                       Contains(listed, c) <=> c \in Elements(available)]_vars

C3_Witness ==
    /\ call.op = "select_coach"
    /\ call.coach_class = " 3a "
    /\ ret.status = "success"
    /\ flow.selected_coach = Some("3A")

\* C5: get_booking_summary succeeds iff a train and a class are selected, and then its
\* summary has the selected train's train_number, departure, arrival, duration and
\* price_from and the selected class.
C5_SummaryOfSelection ==
    [][call'.op = "get_booking_summary"
           => /\ ret'.status = "success"
                     <=> flow.selected_train # None /\ flow.selected_coach # None
              /\ ret'.status # "success" => ret'.status = "error"
              /\ ret'.status = "success"
                     => /\ ret'.summary.train_number = flow.selected_train[1].train_number
                        /\ ret'.summary.departure = flow.selected_train[1].departure
                        /\ ret'.summary.arrival = flow.selected_train[1].arrival
                        /\ ret'.summary.duration = flow.selected_train[1].duration
                        /\ ret'.summary.price_from = flow.selected_train[1].price_from
                        /\ ret'.summary.coach_class = flow.selected_coach[1]]_vars

C5_Witness ==
    /\ call.op = "get_booking_summary"
    /\ ret.status = "success"
    /\ ret.summary.departure = "10:00"
    /\ ret.summary.arrival = "14:30"
    /\ ret.summary.coach_class = "2A"

\* C6: a select_train, select_coach or get_booking_summary call that fails leaves
\* trains, selected_train and selected_coach as they were.
C6_FailureChangesNothing ==
    [][call'.op \in {"select_train", "select_coach", "get_booking_summary"}
           /\ ret'.status # "success"
           => flow' = flow]_vars

C6_Witness ==
    /\ call.op = "select_coach"
    /\ ret.status = "error"
    /\ flow.selected_train # None
    /\ flow.selected_coach # None

NumberedCard(k) ==
    [tag |-> "div",
     nodes |-> <<ToString(10000 + k), "Intercity Express", "06:00", "09:30", "₹180", "SL">>]

\* page chrome, then more trains than TrainLimit
LongPage ==
    [fetch |-> "ok",
     cards |-> <<CardD>> \o [k \in 1..(TrainLimit + MaxCards) |-> NumberedCard(k)]]

\* a table row of another train, with two times
CardF == [tag |-> "tr", nodes |-> <<"17230", "Sabari", "07:10", "19:45">>]

\* a table row above a div card
MixedPage == [fetch |-> "ok", cards |-> <<CardF, CardA>>]

\* the one table row of the listing fixture, its text in a single cell
RowCard == [tag |-> "tr", nodes |-> <<"12345 Express 10:00 14:30 ₹450 2A 3A">>]
\* the same row with a cell for each field
CellsCard ==
    [tag |-> "tr", nodes |-> <<"12345", "Express", "10:00", "14:30", "₹450", "2A", "3A">>]

\* the pages whose only candidate is that row
FixturePages == {[fetch |-> "ok", cards |-> <<c>>] : c \in {RowCard, CellsCard}}

\* a card that names the classes EC and FC
CardG ==
    [tag |-> "div",
     nodes |-> <<"12002", "Bhopal Shatabdi", "06:00", "14:40", "EC", "FC", "₹2,195">>]

ExecutivePage == [fetch |-> "ok", cards |-> <<CardG>>]

\* the card of train 22222 again, with its arrival
CardH ==
    [tag |-> "div",
     nodes |-> <<"22222", "Shatabdi Chair Car", "06:15", "12:40", "CC", "₹1,250">>]

\* a card without the arrival above the full card of the same train
RepeatPage == [fetch |-> "ok", cards |-> <<CardC, CardH>>]

ListingPages ==
    Pages \cup {LongPage, MixedPage, ExecutivePage, RepeatPage} \cup FixturePages

(***************************************************************************)
(* get_trains_easemytrip and scrape_trains, one candidate of their loops at *)
(* a time. scrape is the position in the function (pc) and its locals (st). *)
(***************************************************************************)
\* the call, up to the first iteration of the loop; a failed fetch returns at once
GetTrainsEasemytrip ==
    /\ scrape.pc \notin {"loop", "scrape_loop"}
    /\ \E page \in ListingPages :
        /\ call' = [op |-> "get_trains_easemytrip", page |-> page]
        /\ IF page.fetch # "ok"
           THEN ret' = TrainsError(page) /\ scrape' = NoScrape
           ELSE ret' = NoRet /\ scrape' = [pc |-> "loop", st |-> LoopStart(page)]
    /\ UNCHANGED <<flow, confirmed, reselected, orch, pw, gateway, handler>>

\* one iteration of "for idx, card in enumerate(train_cards)"
ForCard ==
    /\ scrape.pc = "loop"
    /\ ~LoopDone(scrape.st)
    /\ scrape' = [scrape EXCEPT !.st = LoopStep(@)]
    /\ UNCHANGED <<flow, call, ret, confirmed, reselected, orch, pw, gateway, handler>>

\* the return after the loop
ReturnTrains ==
    /\ scrape.pc = "loop"
    /\ LoopDone(scrape.st)
    /\ ret' = TrainsResult(scrape.st.trains)
    /\ scrape' = [scrape EXCEPT !.pc = "done"]
    /\ UNCHANGED <<flow, call, confirmed, reselected, orch, pw, gateway, handler>>

\* scrape_trains up to the first iteration of its loop; a failed fetch returns at once
ScrapeTrains ==
    /\ scrape.pc \notin {"loop", "scrape_loop"}
    /\ \E page \in ListingPages :
        /\ call' = [op |-> "scrape_trains", page |-> page]
        /\ IF page.fetch # "ok"
           THEN ret' = ScrapeError(page) /\ scrape' = NoScrape
           ELSE ret' = NoRet /\ scrape' = [pc |-> "scrape_loop", st |-> ContainersStart(page)]
    /\ UNCHANGED <<flow, confirmed, reselected, orch, pw, gateway, handler>>

\* one iteration of "for idx, container in enumerate(train_containers)"
ForContainer ==
    /\ scrape.pc = "scrape_loop"
    /\ ~ContainersDone(scrape.st)
    /\ scrape' = [scrape EXCEPT !.st = ContainerStep(@)]
    /\ UNCHANGED <<flow, call, ret, confirmed, reselected, orch, pw, gateway, handler>>

\* the return after the loop
ReturnScraped ==
    /\ scrape.pc = "scrape_loop"
    /\ ContainersDone(scrape.st)
    /\ ret' = ScrapeResult(scrape.st.trains)
    /\ scrape' = [scrape EXCEPT !.pc = "scrape_done"]
    /\ UNCHANGED <<flow, call, confirmed, reselected, orch, pw, gateway, handler>>

NextScrape ==
    \/ GetTrainsEasemytrip \/ ForCard \/ ReturnTrains
    \/ ScrapeTrains \/ ForContainer \/ ReturnScraped

SpecScrape == InitFlow /\ [][NextScrape]_vars

\* the train numbers of a list of trains
TrainNumbers(trains) == {trains[k].train_number : k \in 1..Len(trains)}

\* no two trains of the list have the same train_number
DistinctNumbers(trains) ==
    \A j, k \in 1..Len(trains) : trains[j].train_number = trains[k].train_number => j = k

\* the 4-5 digit identifier of a card, None without one
CardNumber(card) == SearchTrainNum(Join(card.nodes, " "))

\* C10: in get_trains_easemytrip no two trains share a train_number, neither in the
\* list while the loop runs nor in the result; and the iteration over a card whose
\* number is that of a train already accepted leaves the list as it was.
C10_NoDuplicateTrainNumber ==
    [][/\ scrape'.pc \in {"loop", "done"} => DistinctNumbers(scrape'.st.trains)
       /\ call'.op = "get_trains_easemytrip" /\ ret'.status = "ok"
              => DistinctNumbers(ret'.trains)
       /\ \A n \in TrainNumbers(IF scrape.pc = "loop" THEN scrape.st.trains ELSE <<>>) :
              scrape'.pc = "loop" /\ scrape'.st.idx = scrape.st.idx + 1
                  /\ CardNumber(scrape.st.train_cards[scrape.st.idx + 1]) = Some(n)
              => scrape'.st.trains = scrape.st.trains]_vars

\* two cards of train 12345, each with two times, gave one train: the first
C10_Witness ==
    /\ scrape.pc = "done"
    /\ scrape.st.train_cards = <<CardA, CardB>>
    /\ ret.status = "ok"
    /\ Len(ret.trains) = 1
    /\ ret.trains[1].arrival = "14:30"

(***************************************************************************)
(* A TrainBookingOrchestrator and a client that calls its methods in any    *)
(* order.                                                                   *)
(***************************************************************************)
ScrapeAndDisplayTrains ==
    \E page \in ScrapePages :
      \E r \in {scrape_and_display_trains(orch, page)} :
        /\ orch' = r.self
        /\ ret' = r.ret
        /\ call' = [op |-> "scrape_and_display_trains"]
        /\ UNCHANGED <<flow, confirmed, reselected, pw, scrape, gateway, handler>>

SelectTrainAndCoach ==
    \E train_index \in TrainIndexes, coach_class \in CoachInputs :
      \E r \in {select_train_and_coach(orch, train_index, coach_class)} :
        /\ orch' = r.self
        /\ ret' = r.ret
        /\ call' = [op |-> "select_train_and_coach",
                    train_index |-> train_index, coach_class |-> coach_class]
        /\ UNCHANGED <<flow, confirmed, reselected, pw, scrape, gateway, handler>>

CompleteBookingFlow ==
    \E page \in ScrapePages, env \in PwEnvs :
      \E r \in {complete_booking_flow(orch, page, pw, env)} :
        /\ orch' = r.self
        /\ pw' = r.pw
        /\ ret' = r.ret
        /\ call' = [op |-> "complete_booking_flow"]
        /\ UNCHANGED <<flow, confirmed, reselected, scrape, gateway, handler>>

NextBook == ScrapeAndDisplayTrains \/ SelectTrainAndCoach \/ CompleteBookingFlow

SpecBook == InitFlow /\ [][NextBook]_vars

(***************************************************************************)
(* The two request handlers, each a function of its request, of the page    *)
(* the url serves and of what Playwright does: a request is drawn, and the  *)
(* handler answers it.                                                      *)
(***************************************************************************)
RequestUrl == "https://railways.easemytrip.com/TrainListInfo/ONG-to-HYD/2/04-11-2025"

\* the JSON bodies: none, and every choice of the three fields
Bodies ==
    {None} \cup
    {Some([url |-> url, train_index |-> train_index, coach_class |-> coach_class]) :
        url \in {"", RequestUrl},
        train_index \in {None} \cup {Some(i) : i \in TrainIndexes},
        coach_class \in {""} \cup CoachInputs}

Requests ==
    {[op |-> "book_train", data |-> data, page |-> page, env |-> env] :
        data \in Bodies, page \in ScrapePages, env \in PwEnvs}
    \cup
    {[op |-> "book_train_complete", page |-> page,
      train_index |-> train_index, coach_class |-> coach_class] :
        page \in FetchPages, train_index \in TrainIndexes, coach_class \in CoachInputs}

InitRequest ==
    /\ call \in Requests
    /\ ret = NoRet
    /\ flow = NewFlow
    /\ confirmed = None
    /\ reselected = FALSE
    /\ orch = NewOrchestrator
    /\ pw = NoPw
    /\ scrape = NoScrape
    /\ gateway = NoGateway
    /\ handler = NoHandler

BookTrain ==
    /\ call.op = "book_train"
    /\ ret = NoRet
    /\ \E r \in {book_train(call.data, call.page, pw, call.env)} :
           ret' = r.ret /\ pw' = r.pw
    /\ UNCHANGED <<flow, call, confirmed, reselected, orch, scrape, gateway, handler>>

BookTrainComplete ==
    /\ call.op = "book_train_complete"
    /\ ret = NoRet
    /\ ret' = book_train_complete(call.page, call.train_index, call.coach_class)
    /\ UNCHANGED <<flow, call, confirmed, reselected, orch, pw, scrape, gateway, handler>>

NextRequest == BookTrain \/ BookTrainComplete

SpecRequest == InitRequest /\ [][NextRequest]_vars

\* the trains of a request to POST /api/trains/book: what scrape_trains finds
Offered(request) == Scraped[request.page].trains

\* the trains of a request to book_train_complete: what get_trains_easemytrip finds
Listed(request) ==
    IF Fetched[request.page].status = "ok" THEN Fetched[request.page].trains ELSE <<>>

\* the body has the three fields, none of them empty
Complete(data) ==
    /\ data # None
    /\ Strip(data[1].url) # ""
    /\ data[1].train_index # None
    /\ Strip(data[1].coach_class) # ""

\* C1: a request to POST /api/trains/book with the three fields, a scrape that
\* finds at least one train, train_index within 0..N-1, coach_class one of the
\* classes of the train chosen and every Playwright step succeeding is answered
\* 200 with status "success" and a booking_url.
C1_BookingSucceeds ==
    [][call.op = "book_train" /\ Complete(call.data)
           /\ Offered(call) # <<>>
           /\ call.data[1].train_index[1] \in 0..(Len(Offered(call)) - 1)
           /\ call.data[1].coach_class
                  \in Elements(Offered(call)[call.data[1].train_index[1] + 1].coaches_available)
           /\ call.env = AllGood
       => /\ ret'.code = 200
          /\ ret'.json.status = "success"
          /\ "booking_url" \in DOMAIN ret'.json]_vars

\* the message names the range 0..N-1, in either of the forms the code writes
NamesRange(message, N) ==
    \/ Contains(message, "0-" \o ToString(N - 1))
    \/ Contains(message, "[0] to [" \o ToString(N - 1) \o "]")

\* the answer to train_index i, of N trains, is that of an index validation: out
\* of range it is an error that names the range, in range it is not the error
\* about the index
Validated(i, N, status, message) ==
    IF 0 <= i /\ i < N
    THEN ~Contains(message, "Invalid train")
    ELSE status = "error" /\ NamesRange(message, N)

\* C4: selecting by index succeeds iff 0 <= index < N, and out of range the
\* error message names the range 0..N-1: for TrainBookingFlow.select_train, and
\* for the index validation of book_train_complete and of POST /api/trains/book
\* (stated for the two handlers where there is a range to name, N >= 1, and the
\* request is complete).
C4_IndexInRange ==
    [][/\ call'.op = "select_train"
              => /\ ret'.status = "success"
                     <=> 0 <= call'.train_index /\ call'.train_index < Len(flow.trains)
                 /\ ret'.status # "success"
                     => ret'.status = "error"
                            /\ NamesRange(ret'.message, Len(flow.trains))
       /\ call.op = "book_train_complete" /\ Len(Listed(call)) >= 1
              => Validated(call.train_index, Len(Listed(call)), ret'.status, ret'.message)
       /\ call.op = "book_train" /\ Complete(call.data) /\ Len(Offered(call)) >= 1
              => Validated(call.data[1].train_index[1], Len(Offered(call)),
                           ret'.json.status, ret'.json.message)]_vars

\* both sides of the orchestrator's selection are set
BothSelected(self) == TruthyDict(self.selected_train) /\ Truthy(self.selected_coach)

\* C8: complete_booking_flow launches a browser only if selected_train and
\* selected_coach are both set; with either missing it returns status "error" and
\* Playwright holds what it held: no browser launched, no page visited, no click.
C8_NoCheckoutOfHalfSelection ==
    [][call'.op = "complete_booking_flow" /\ ~BothSelected(orch)
           => ret'.status = "error" /\ pw' = pw /\ pw'.browser = "none"]_vars

\* complete_booking_flow was called on an orchestrator whose flow has a train
\* selected and whose own selection is empty, with trains on the page
C8_Witness ==
    /\ call.op = "complete_booking_flow"
    /\ orch.flow.trains # <<>>
    /\ orch.flow.selected_train # None
    /\ ~BothSelected(orch)
    /\ ret.status = "error"
    /\ pw = NoPw

(***************************************************************************)
(* The catalogs of the two scrapers                                         *)
(***************************************************************************)
\* C11: the catalog that a TrainBookingFlow holds after fetch_trains has no two
\* trains with the same train_number, whatever containers the page has.
C11_CatalogDistinctNumbers == DistinctNumbers(flow.trains)

\* at most TrainLimit trains, and the train at position k (from 0) has index k
CappedAndDense(trains) ==
    /\ Len(trains) <= TrainLimit
    /\ \A k \in 1..Len(trains) : trains[k].index = k - 1

\* C12: in get_trains_easemytrip and in scrape_trains alike, at every point of the
\* loop and in the result, the catalog has at most 20 trains and the train at
\* position k has index k.
C12_CappedDenseIndex ==
    /\ scrape.pc # "idle" => CappedAndDense(scrape.st.trains)
    /\ call.op \in {"get_trains_easemytrip", "scrape_trains"} /\ ret.status \in {"ok", "success"}
           => CappedAndDense(ret.trains) /\ ret.total_trains = Len(ret.trains)

\* scrape_trains stopped at the limit with containers left, after a container
\* that it skipped
C12_Witness ==
    /\ scrape.pc = "scrape_done"
    /\ call.page = LongPage
    /\ Len(ret.trains) = TrainLimit
    /\ scrape.st.idx < Len(scrape.st.train_containers)
    /\ ret.trains[TrainLimit].train_number = ToString(10000 + TrainLimit)

\* a text node that is one time of day, HH:MM
IsClock(s) ==
    /\ Len(s) = 5
    /\ IsDigit(Char(s, 1)) /\ IsDigit(Char(s, 2)) /\ Char(s, 3) = ":"
    /\ IsDigit(Char(s, 4)) /\ IsDigit(Char(s, 5))

RECURSIVE Words(_)
\* the words of a text, which spaces separate
Words(s) ==
    IF Find(s, " ") = -1 THEN <<s>>
    ELSE <<SubSeq(s, 1, Find(s, " "))>> \o Words(SubSeq(s, Find(s, " ") + 2, Len(s)))

\* the times of day of a card, in the order of its text
ClockNodes(card) == SelectSeq(Words(Join(card.nodes, " ")), IsClock)

\* C13: get_trains_easemytrip never accepts a card with fewer than two times of day;
\* the departure and the arrival of an accepted train are the first and the second
\* time of its card, and no train of the list has a placeholder for either.
C13_TwoTimesOrSkipped ==
    [][/\ scrape.pc = "loop" /\ scrape'.pc = "loop"
          => LET clocks == ClockNodes(scrape.st.train_cards[scrape.st.idx + 1])
                 trains == scrape'.st.trains
             IN  IF Len(clocks) < 2 THEN trains = scrape.st.trains
                 ELSE trains # scrape.st.trains
                          => /\ trains[Len(trains)].departure = clocks[1]
                             /\ trains[Len(trains)].arrival = clocks[2]
       /\ scrape'.pc \in {"loop", "done"}
          => \A k \in 1..Len(scrape'.st.trains) :
                 /\ IsClock(scrape'.st.trains[k].departure)
                 /\ IsClock(scrape'.st.trains[k].arrival)]_vars

\* the card of train 22222 has one time and gave no train; the card after it has
\* two and gave one
C13_Witness ==
    /\ scrape.pc = "done"
    /\ scrape.st.train_cards = <<CardC, CardA>>
    /\ Len(ret.trains) = 1
    /\ ret.trains[1].train_number = "12345"
    /\ ret.trains[1].departure = "10:00"
    /\ ret.trains[1].arrival = "14:30"

\* the positions in the page of the containers that give this train
SourcePositions(page, train) ==
    {i \in 1..Len(page.cards) :
        /\ CardNumber(page.cards[i]) = Some(train.train_number)
        /\ Len(ClockNodes(page.cards[i])) >= 2
        /\ ClockNodes(page.cards[i])[1] = train.departure
        /\ ClockNodes(page.cards[i])[2] = train.arrival}

\* the position in the page of the first container that gives this train
SourcePosition(page, train) ==
    CHOOSE i \in SourcePositions(page, train) : \A j \in SourcePositions(page, train) : i <= j

\* C14: the trains of the result of get_trains_easemytrip are in document order:
\* a train with a smaller index comes from a container earlier in the page, also
\* when the page has div cards and table rows.
C14_DocumentOrder ==
    call.op = "get_trains_easemytrip" /\ ret.status = "ok"
        => \A j, k \in 1..Len(ret.trains) :
               ret.trains[j].index < ret.trains[k].index
                   => SourcePosition(call.page, ret.trains[j])
                          < SourcePosition(call.page, ret.trains[k])

\* the diagnostic text of a result, "" when it has none
Diagnostic(result) ==
    IF "message" \in DOMAIN result THEN result.message
    ELSE IF "error_message" \in DOMAIN result THEN result.error_message
    ELSE ""

\* C15: scrape_trains and get_trains_easemytrip alike: when the fetch fails the result
\* has status "error", a diagnostic message that is not empty and an empty list of
\* trains; when the fetch succeeds and no candidate is accepted the status is
\* "partial" or "error", not a status of success.
C15_FailuresTyped ==
    call.op \in {"get_trains_easemytrip", "scrape_trains"} /\ ret # NoRet
        => IF call.page.fetch # "ok"
           THEN /\ ret.status = "error"
                /\ Diagnostic(ret) # ""
                /\ "trains" \in DOMAIN ret
                /\ ret.trains = <<>>
           ELSE "trains" \in DOMAIN ret /\ ret.trains = <<>>
                    => ret.status \in {"partial", "error"}

\* C16: of a page whose only candidate is the table row "12345 Express 10:00 14:30
\* ₹450 2A 3A", scrape_trains gives exactly one train, with train_number "12345",
\* departure "10:00", arrival "14:30", a price_from that contains "450" and
\* coaches_available that include "2A" and "3A".
C16_FixtureRow ==
    call.op = "scrape_trains" /\ call.page \in FixturePages /\ scrape.pc = "scrape_done"
        => /\ Len(ret.trains) = 1
           /\ ret.trains[1].train_number = "12345"
           /\ ret.trains[1].departure = "10:00"
           /\ ret.trains[1].arrival = "14:30"
           /\ Contains(ret.trains[1].price_from, "450")
           /\ {"2A", "3A"} \subseteq Elements(ret.trains[1].coaches_available)

\* some class of the enumeration is accepted by select_coach once this train is
\* selected
AcceptsSomeClass(train) ==
    \E code \in FareClassCodes :
        select_coach([NewFlow EXCEPT !.trains = <<train>>, !.selected_train = Some(train)],
                     code).ret.status = "success"

\* the upper-cased text of the container names none of the class codes
NamesNoClass(container) ==
    \A code \in FareClassCodes : ~Contains(Upper(Join(container.nodes, " | ")), code)

\* C17: every train of scrape_trains has coaches_available that are not empty and are
\* codes of the FareClass enumeration, SL, 3A, 2A, 1A when its container names no
\* code; so select_coach accepts at least one class for any train of a catalog.
C17_CoachesNeverEmpty ==
    [][/\ scrape'.pc \in {"scrape_loop", "scrape_done"}
          => \A k \in 1..Len(scrape'.st.trains) :
                 LET train == scrape'.st.trains[k]
                 IN  /\ train.coaches_available # <<>>
                     /\ Elements(train.coaches_available) \subseteq FareClassCodes
                     /\ AcceptsSomeClass(train)
       /\ scrape.pc = "scrape_loop" /\ scrape'.pc = "scrape_loop"
              /\ scrape'.st.trains # scrape.st.trains
              /\ NamesNoClass(scrape.st.train_containers[scrape.st.idx + 1])
          => scrape'.st.trains[Len(scrape'.st.trains)].coaches_available
                 = <<"SL", "3A", "2A", "1A">>]_vars

\* the row of train 12345 names no class and became a train with the four classes
C17_Witness ==
    /\ scrape.pc = "scrape_done"
    /\ scrape.st.train_containers = <<CardB>>
    /\ NamesNoClass(CardB)
    /\ Len(ret.trains) = 1
    /\ ret.trains[1].coaches_available = <<"SL", "3A", "2A", "1A">>

\* the classes that the booking validators know
ValidatorClasses == {"SL", "3A", "2A", "1A"}

\* select_coach accepts this class once this train is selected
AcceptsClass(train, code) ==
    select_coach([NewFlow EXCEPT !.trains = <<train>>, !.selected_train = Some(train)],
                 code).ret.status = "success"

\* C18: scrape_trains puts each of CC, FC and EC that a container names into the
\* coaches_available of its train, and select_coach then accepts it; the validators
\* of POST /api/trains/book and of book_train_complete let no class through but
\* SL, 3A, 2A and 1A.
C18_AuxiliaryClasses ==
    /\ scrape.pc \in {"scrape_loop", "scrape_done"} /\ Len(scrape.st.trains) = scrape.st.idx
           => \A k \in 1..scrape.st.idx :
                \A code \in {"CC", "FC", "EC"} \cap Elements(scrape.st.train_containers[k].nodes) :
                    /\ code \in Elements(scrape.st.trains[k].coaches_available)
                    /\ AcceptsClass(scrape.st.trains[k], code)
    /\ call.op = "book_train" /\ ret # NoRet /\ ret.json.status = "success"
           => Strip(call.data[1].coach_class) \in ValidatorClasses
    /\ call.op = "book_train_complete" /\ ret.status = "success"
           => call.coach_class \in ValidatorClasses

(***************************************************************************)
(* The gateways of /api/query: api_server_fixed.py, gateway.py, api_server.py *)
(* of outbox and app.py of ADK. A gateway is a process with its own         *)
(* conversations dict; Flask hands each request to a thread. objects are    *)
(* the conversation dicts ever made, by their histories, and conversations  *)
(* maps an id to the position of its dict in objects, as a Python dict      *)
(* holds a reference.                                                       *)
(***************************************************************************)
Variants == {"api_server_fixed", "gateway", "adk_app", "api_server"}

\* the variants that keep conversations
Keeping == {"api_server_fixed", "adk_app", "api_server"}

\* the requests a gateway receives in a run
MaxQueries == 2

ADK_URL == "http://127.0.0.1:9090"

\* the "query" of a request body: absent, empty, blank, or a question
Queries == {None, Some(""), Some("   "), Some(" Book train from Ongole to Hyderabad ")}

\* the "conversation_id" of a request body: absent or given
ConversationIds == {None, Some("user_123")}

\* what the ADK server does while a request is forwarded: it answers, the
\* connection is refused, /health is not 200, /health times out, or no endpoint
\* answers 200
Downstream == {"ok", "unreachable", "unhealthy", "timeout", "no_endpoint"}

\* the reply of the ADK server when it answers
AdkResponse == "Found 5 trains from Ongole to Hyderabad"

\* forward_to_adk(query_text, conversation_id) of api_server_fixed.py
forward_to_adk(query_text, adk) ==
    CASE adk = "ok" -> AdkResponse
      [] adk = "no_endpoint" ->
            "Query processed: " \o query_text \o "\n\nNote: ADK endpoint not found at "
                \o ADK_URL \o ". Make sure you started ADK with: adk api_server"
      [] adk = "unreachable" ->
            "Error: Cannot reach ADK server at " \o ADK_URL \o "\n\nTo fix:\n"
                \o "1. Open another terminal\n2. Run: adk api_server\n"
                \o "3. Wait for 'Server started on...'\n4. Try your request again"
      [] adk = "timeout" ->
            "Timeout: ADK server at " \o ADK_URL \o " took too long to respond"
      [] adk = "unhealthy" -> "Error: ADK unhealthy: 503"

\* the forwarding block of query_post of gateway.py
ForwardPost(query_text, adk) ==
    CASE adk = "ok" -> AdkResponse
      [] adk = "unhealthy" -> "ADK returned 503"
      [] adk = "no_endpoint" -> "ADK returned 404"
      [] OTHER -> "Query received: " \o query_text
                      \o ". (ADK not responding - that's OK for testing)"

\* the agent block of query of ADK/app.py, AGENT_AVAILABLE being what the import
\* of the agent gave
ProcessWithAgent(query_text, agent_available) ==
    IF agent_available THEN "Processed: " \o query_text
    ELSE "Agent unavailable. Query received: " \o query_text

\* the response text of a variant for a query
ResponseText(variant, query_text, adk, agent_available) ==
    CASE variant = "api_server_fixed" -> forward_to_adk(query_text, adk)
      [] variant = "gateway" -> ForwardPost(query_text, adk)
      [] variant = "adk_app" -> ProcessWithAgent(query_text, agent_available)

\* data.get('query', '').strip()
QueryText(request) == Strip(OrElse(request.query, ""))

\* data.get('conversation_id', default): uuid4 and the clock give a new default
\* for every request, the n-th here
ConversationId(request, n) == OrElse(request.conversation_id, "conv_" \o ToString(n))

\* the 400 of a variant
MissingQuery(variant, conversation_id) ==
    IF variant = "gateway"
    THEN [code |-> 400, json |-> [status |-> "error", message |-> "Missing query"]]
    ELSE [code |-> 400,
          json |-> [status |-> "error",
                    message |-> "Missing 'query' parameter",
                    conversation_id |-> conversation_id]]

\* the 200 of a variant
Answer(variant, conversation_id, response_text) ==
    IF variant = "adk_app"
    THEN [code |-> 200,
          json |-> [status |-> "success",
                    conversation_id |-> conversation_id,
                    response |-> response_text]]
    ELSE [code |-> 200,
          json |-> [status |-> "success",
                    conversation_id |-> conversation_id,
                    message |-> response_text]]

\* the 500 of api_server.py, whose query names asyncio without importing it
NameError(conversation_id) ==
    [code |-> 500,
     json |-> [status |-> "error",
               message |-> "name 'asyncio' is not defined",
               error_type |-> "NameError",
               conversation_id |-> conversation_id]]

\* a thread that handles no request
IdleThread == [pc |-> "idle"]

\* a gateway process that has just started, with this many threads
NewGateway(variant, workers, agent_available) ==
    [variant |-> variant,
     agent_available |-> agent_available,
     objects |-> <<>>,
     conversations |-> <<>>,
     threads |-> [t \in 1..workers |-> IdleThread],
     received |-> 0]

\* conversations as the set of its ids
Ids(g) == {g.conversations[k].id : k \in 1..Len(g.conversations)}

\* conversations[id]: the position in objects of the dict of this id
Lookup(g, id) ==
    (CHOOSE k \in 1..Len(g.conversations) : g.conversations[k].id = id)

\* a store that empties the dict the id names instead of making a new one
Store_cleared(g, id) ==
    IF id \in Ids(g)
    THEN [g EXCEPT !.objects[g.conversations[Lookup(g, id)].object] = <<>>]
    ELSE [g EXCEPT !.objects = Append(@, <<>>),
                   !.conversations = Append(@, [id |-> id, object |-> Len(g.objects) + 1])]

\* conversations[id] = {'history': [], ...}: a new dict, which the id now names
Store(g, id) ==
    LET objects == Append(g.objects, <<>>)
        entry == [id |-> id, object |-> Len(objects)]
    IN  [g EXCEPT !.objects = objects,
                  !.conversations =
                      IF id \in Ids(g)
                      THEN [@ EXCEPT ![Lookup(g, id)] = entry]
                      ELSE Append(@, entry)]

\* the request arrives at a thread that is free: the handler parses it and
\* answers 400 when the query is missing
Receive ==
    \E t \in DOMAIN gateway.threads :
      /\ gateway.variant \in Variants
      /\ gateway.threads[t].pc \in {"idle", "done"}
      /\ gateway.received < MaxQueries
      /\ \E query \in Queries, conversation_id \in ConversationIds :
           LET request == [query |-> query, conversation_id |-> conversation_id]
               n == gateway.received + 1
               id == ConversationId(request, n)
               thread == [request |-> request,
                          query_text |-> QueryText(request),
                          conversation_id |-> id]
           IN  gateway' =
                 [gateway EXCEPT
                    !.received = n,
                    !.threads[t] =
                        IF ~Truthy(Some(QueryText(request)))
                        THEN thread @@ [pc |-> "done",
                                        response |-> MissingQuery(gateway.variant, id)]
                        ELSE thread @@ [pc |-> IF gateway.variant \in Keeping
                                               THEN "check" ELSE "forward"]]
      /\ UNCHANGED <<flow, call, ret, confirmed, reselected, orch, pw, scrape, handler>>

\* a handler that makes the conversation whether or not the id is known
CheckConversation_always ==
    \E t \in DOMAIN gateway.threads :
      /\ gateway.threads[t].pc = "check"
      /\ gateway' = [gateway EXCEPT !.threads[t].pc = "create"]
      /\ UNCHANGED <<flow, call, ret, confirmed, reselected, orch, pw, scrape, handler>>

\* "if conversation_id not in conversations"
CheckConversation ==
    \E t \in DOMAIN gateway.threads :
      /\ gateway.threads[t].pc = "check"
      /\ gateway' = [gateway EXCEPT !.threads[t].pc =
                        IF gateway.threads[t].conversation_id \in Ids(gateway)
                        THEN "append" ELSE "create"]
      /\ UNCHANGED <<flow, call, ret, confirmed, reselected, orch, pw, scrape, handler>>

\* "conversations[conversation_id] = {'history': [], ...}"
CreateConversation ==
    \E t \in DOMAIN gateway.threads :
      /\ gateway.threads[t].pc = "create"
      /\ gateway' = [Store(gateway, gateway.threads[t].conversation_id)
                         EXCEPT !.threads[t].pc = "append"]
      /\ UNCHANGED <<flow, call, ret, confirmed, reselected, orch, pw, scrape, handler>>

\* "conv = conversations[conversation_id]" and the append of the user turn
AppendUser ==
    \E t \in DOMAIN gateway.threads :
      /\ gateway.threads[t].pc = "append"
      /\ LET thread == gateway.threads[t]
             conv == gateway.conversations[Lookup(gateway, thread.conversation_id)].object
         IN  gateway' =
               [gateway EXCEPT
                  !.objects[conv] = Append(@, [role |-> "user", content |-> thread.query_text]),
                  !.threads[t] = [thread EXCEPT !.pc = "forward"] @@ [conv |-> conv]]
      /\ UNCHANGED <<flow, call, ret, confirmed, reselected, orch, pw, scrape, handler>>

\* the rest of the handler: the query is forwarded, the assistant turn is appended
\* (api_server_fixed.py to the dict it holds, ADK/app.py to the dict the id names
\* now) and the response is sent
ForwardAndAnswer ==
    \E t \in DOMAIN gateway.threads :
      /\ gateway.threads[t].pc = "forward"
      /\ \E adk \in Downstream :
           LET thread == gateway.threads[t]
               done == [x \in DOMAIN thread \ {"conv"} |-> thread[x]]
           IN  IF gateway.variant = "api_server"
               THEN gateway' =
                      [gateway EXCEPT
                         !.threads[t] = [done EXCEPT !.pc = "done"]
                             @@ [adk |-> adk, response |-> NameError(thread.conversation_id)]]
               ELSE \E response_text \in {ResponseText(gateway.variant, thread.query_text, adk,
                                                       gateway.agent_available)} :
                      LET conv == IF gateway.variant = "adk_app"
                                  THEN gateway.conversations[
                                           Lookup(gateway, thread.conversation_id)].object
                                  ELSE thread.conv
                          turn == [role |-> "assistant", content |-> response_text]
                      IN  gateway' =
                            [gateway EXCEPT
                               !.objects = IF gateway.variant \in Keeping
                                           THEN [@ EXCEPT ![conv] = Append(@, turn)] ELSE @,
                               !.threads[t] = [done EXCEPT !.pc = "done"]
                                   @@ [adk |-> adk,
                                       response |-> Answer(gateway.variant,
                                                           thread.conversation_id,
                                                           response_text)]]
      /\ UNCHANGED <<flow, call, ret, confirmed, reselected, orch, pw, scrape, handler>>

\* a gateway that handles one request at a time
InitGateway ==
    /\ gateway \in {NewGateway(v, 1, a) : v \in Variants, a \in BOOLEAN}
    /\ flow = NewFlow
    /\ call = NoCall
    /\ ret = NoRet
    /\ confirmed = None
    /\ reselected = FALSE
    /\ orch = NewOrchestrator
    /\ pw = NoPw
    /\ scrape = NoScrape
    /\ handler = NoHandler

NextGateway ==
    Receive \/ CheckConversation \/ CreateConversation \/ AppendUser \/ ForwardAndAnswer

SpecGateway == InitGateway /\ [][NextGateway]_vars

\* a query that is missing, empty or nothing but spaces
IsBlank(query) ==
    query = None \/ \A i \in 1..Len(query[1]) : Char(query[1], i) = " "

\* the threads of the gateway that have answered their request
Answered(g) == {t \in DOMAIN g.threads : g.threads[t].pc = "done"}

\* C22: in every gateway variant a request whose query is missing, empty or blank is
\* answered with 400 and a body that has status "error" and the conversation_id,
\* the one supplied or else the default of the server; and the request creates no
\* conversation and appends to no history.
C22_MissingQueryIs400 ==
    [][\A t \in Answered(gateway') :
         LET thread == gateway'.threads[t]
         IN  IsBlank(thread.request.query)
                 => /\ thread.response.code = 400
                    /\ thread.response.json.status = "error"
                    /\ "conversation_id" \in DOMAIN thread.response.json
                    /\ thread.response.json.conversation_id = thread.conversation_id
                    /\ thread.conversation_id # ""
                    /\ thread.request.conversation_id # None
                           => thread.conversation_id = thread.request.conversation_id[1]
                    /\ gateway.variant \in Variants /\ gateway.threads[t] # thread
                           => /\ gateway'.objects = gateway.objects
                              /\ gateway'.conversations = gateway.conversations]_vars

\* the agent backend failed while this thread handled its request
BackendFailed(g, thread) ==
    IF g.variant = "adk_app" THEN ~g.agent_available ELSE thread.adk # "ok"

\* C23: when the agent backend fails (it is unreachable or unhealthy, it times out,
\* or no endpoint answers 200), a request with a query that is not blank is answered
\* with 200 and a body whose status is "error", never with status "success" and
\* never with 500.
C23_BackendFailureIsError ==
    \A t \in Answered(gateway) :
        LET thread == gateway.threads[t]
        IN  ~IsBlank(thread.request.query) /\ BackendFailed(gateway, thread)
                => /\ thread.response.code = 200
                   /\ thread.response.json.status = "error"

\* conversations[id]['history']
History(g, id) == g.objects[g.conversations[Lookup(g, id)].object]

\* the text that a response carries
ResponseBody(response) ==
    IF "response" \in DOMAIN response.json THEN response.json.response
    ELSE response.json.message

\* the step appends to this history the user turn of a request that is being
\* handled, or its assistant turn after its user turn
AppendsTurn(old, new, id) ==
    \E t \in DOMAIN gateway.threads :
        LET thread == gateway.threads[t]
        IN  /\ thread.pc \in {"append", "forward"}
            /\ thread.conversation_id = id
            /\ IF thread.pc = "append"
               THEN new = Append(old, [role |-> "user", content |-> thread.query_text])
               ELSE /\ old # <<>>
                    /\ old[Len(old)] = [role |-> "user", content |-> thread.query_text]
                    /\ gateway'.threads[t].pc = "done"
                    /\ new = Append(old, [role |-> "assistant",
                                          content |-> ResponseBody(gateway'.threads[t].response)])

InitThreads ==
    /\ gateway \in {NewGateway(v, 2, a) : v \in Variants, a \in BOOLEAN}
    /\ flow = NewFlow
    /\ call = NoCall
    /\ ret = NoRet
    /\ confirmed = None
    /\ reselected = FALSE
    /\ orch = NewOrchestrator
    /\ pw = NoPw
    /\ scrape = NoScrape
    /\ handler = NoHandler

SpecThreads == InitThreads /\ [][NextGateway]_vars

\* the first two requests of the gateway carried one conversation id, each was
\* handled by its own thread, and both have been answered
TwoOfOneConversation(g) ==
    /\ g.variant \in {"api_server_fixed", "adk_app"}
    /\ g.received = 2
    /\ Answered(g) = DOMAIN g.threads
    /\ \A t \in DOMAIN g.threads : ~IsBlank(g.threads[t].request.query)
    /\ \A s, t \in DOMAIN g.threads :
           g.threads[s].conversation_id = g.threads[t].conversation_id

\* the history holds, at places of its own, the user turn and the assistant turn of
\* each of the two requests, the user turn of a request before its assistant turn
HoldsBothTurns(history, threads) ==
    \E u1, a1, u2, a2 \in 1..Len(history) :
        /\ Cardinality({u1, a1, u2, a2}) = 4
        /\ u1 < a1
        /\ u2 < a2
        /\ history[u1] = [role |-> "user", content |-> threads[1].query_text]
        /\ history[u2] = [role |-> "user", content |-> threads[2].query_text]
        /\ history[a1] = [role |-> "assistant",
                          content |-> ResponseBody(threads[1].response)]
        /\ history[a2] = [role |-> "assistant",
                          content |-> ResponseBody(threads[2].response)]

\* C29 as stated: when two requests with one conversation id that the gateway has
\* not seen are handled at the same time, then after both are answered the history
\* stored for the id holds the user turn and the assistant turn of both requests,
\* the user turn of each before its own assistant turn.
C29_NoTurnLost ==
    TwoOfOneConversation(gateway)
        => HoldsBothTurns(History(gateway, gateway.threads[1].conversation_id),
                          gateway.threads)

\* C29 as amended: the same holds when the entry of the conversation was made once,
\* that is when the second request looked the id up after the first had stored the
\* entry, as it does when the requests are handled one after the other.
C29_NoTurnLostCreatedOnce ==
    TwoOfOneConversation(gateway) /\ Len(gateway.objects) = 1
        => /\ Len(History(gateway, gateway.threads[1].conversation_id)) = 4
           /\ HoldsBothTurns(History(gateway, gateway.threads[1].conversation_id),
                             gateway.threads)

\* two threads have answered two requests of one new conversation whose entry was
\* made once, and the history has the four turns
C29_Witness ==
    /\ TwoOfOneConversation(gateway)
    /\ Len(gateway.objects) = 1
    /\ Len(History(gateway, "user_123")) = 4

(***************************************************************************)
(* _get_railway_station_code (agent.py)                                     *)
(***************************************************************************)
\* "Cities with All-Stations format (major metros)", as pairs of city and code
all_stations_cities ==
    <<<<"mumbai", "CSMT">>, <<"delhi", "NDLS">>, <<"kolkata", "KOAA">>, <<"chennai", "MAS">>,
      <<"bangalore", "SBC">>, <<"bengaluru", "SBC">>, <<"hyderabad", "HYB">>, <<"secunderabad", "SC">>,
      <<"lucknow", "LKO">>, <<"kanpur", "CNB">>, <<"varanasi", "BSB">>, <<"prayagraj", "PRYJ">>,
      <<"allahabad", "PRYJ">>, <<"ahmedabad", "ADI">>, <<"pune", "PUNE">>, <<"jaipur", "JP">>,
      <<"bhopal", "BPL">>, <<"habibganj", "HBJ">>, <<"patna", "PNBE">>, <<"bhubaneswar", "BBS">>,
      <<"guwahati", "GHY">>, <<"thiruvananthapuram", "TVC">>, <<"ernakulam", "ERS">>, <<"kochi", "ERS">>,
      <<"vijayawada", "BZA">>, <<"visakhapatnam", "VSKP">>>>

\* "Single station cities"
single_station_cities ==
    <<<<"ongole", "OGL">>, <<"nellore", "NLR">>, <<"guntur", "GNT">>, <<"tirupati", "TPTY">>,
      <<"warangal", "WL">>, <<"aurangabad", "AWB">>, <<"nashik", "NK">>, <<"agra", "AGC">>,
      <<"mathura", "MTJ">>, <<"indore", "INDB">>, <<"ujjain", "UJN">>, <<"gwalior", "GWL">>,
      <<"raipur", "R">>, <<"bilaspur", "BSP">>, <<"ranchi", "RNC">>, <<"darbhanga", "DBG">>,
      <<"muzaffarpur", "MFP">>, <<"silchar", "SCL">>, <<"dimapur", "DMV">>, <<"agartala", "AGTL">>,
      <<"amritsar", "ASR">>, <<"chandigarh", "CDG">>, <<"shimla", "SML">>, <<"jammu", "JAT">>,
      <<"srinagar", "SINA">>, <<"katra", "SVDK">>, <<"bathinda", "BTI">>, <<"ludhiana", "LDH">>,
      <<"pathankot", "PTK">>, <<"goa", "MAO">>, <<"vadodara", "BRC">>>>

\* the keys of a table
Keys(table) == {table[k][1] : k \in 1..Len(table)}

\* table[key]
Get(table, key) == table[CHOOSE k \in 1..Len(table) : table[k][1] = key][2]

RECURSIVE RemoveSpaces(_)
\* s.replace(' ', '')
RemoveSpaces(s) ==
    IF s = "" THEN ""
    ELSE IF Char(s, 1) = " " THEN RemoveSpaces(SubSeq(s, 2, Len(s)))
    ELSE Char(s, 1) \o RemoveSpaces(SubSeq(s, 2, Len(s)))

\* the function without "(city or '').strip().lower()"
get_railway_station_code_unstripped(city) ==
    LET key == OrElse(city, "")
    IN  IF key \in Keys(all_stations_cities)
        THEN [station_code |-> Get(all_stations_cities, key), use_all_stations |-> TRUE]
        ELSE IF key \in Keys(single_station_cities)
        THEN [station_code |-> Get(single_station_cities, key), use_all_stations |-> FALSE]
        ELSE [station_code |-> OrElse(Some(Upper(Prefix(RemoveSpaces(key), 3))), "STN"),
              use_all_stations |-> FALSE]

\* _get_railway_station_code(city): the tuple (station_code, use_all_stations)
get_railway_station_code(city) ==
    LET key == Lower(Strip(OrElse(city, "")))
    IN  IF key \in Keys(all_stations_cities)
        THEN [station_code |-> Get(all_stations_cities, key), use_all_stations |-> TRUE]
        ELSE IF key \in Keys(single_station_cities)
        THEN [station_code |-> Get(single_station_cities, key), use_all_stations |-> FALSE]
        ELSE [station_code |-> OrElse(Some(Upper(Prefix(RemoveSpaces(key), 3))), "STN"),
              use_all_stations |-> FALSE]

\* the city names asked for: None, empty and blank names, the cities of the two
\* tables as written and in capitals between spaces, and names of neither table
Cities ==
    {None, Some(""), Some("   "), Some("Nandyal"), Some(" new york "), Some("k g f"),
     Some("Ooty"), Some("ab")}
        \cup {Some(k) : k \in Keys(all_stations_cities) \cup Keys(single_station_cities)}
        \cup {Some(" " \o Upper(k) \o " ") :
                 k \in Keys(all_stations_cities) \cup Keys(single_station_cities)}

InitStation ==
    /\ call \in {[op |-> "_get_railway_station_code", city |-> c] : c \in Cities}
    /\ ret = NoRet
    /\ flow = NewFlow
    /\ confirmed = None
    /\ reselected = FALSE
    /\ orch = NewOrchestrator
    /\ pw = NoPw
    /\ scrape = NoScrape
    /\ gateway = NoGateway
    /\ handler = NoHandler

GetRailwayStationCode ==
    /\ call.op = "_get_railway_station_code"
    /\ ret = NoRet
    /\ ret' = get_railway_station_code(call.city)
    /\ UNCHANGED <<flow, call, confirmed, reselected, orch, pw, scrape, gateway, handler>>

NextStation == GetRailwayStationCode

SpecStation == InitStation /\ [][NextStation]_vars

\* the characters of a text that are not spaces, in order
RECURSIVE NonSpace(_)
NonSpace(s) ==
    IF s = "" THEN <<>>
    ELSE (IF Char(s, 1) = " " THEN <<>> ELSE <<Char(s, 1)>>) \o NonSpace(SubSeq(s, 2, Len(s)))

\* the first three characters of a name that are not spaces, in capitals
FirstThree(name) ==
    LET chars == NonSpace(name)
    IN  Upper(Join(SubSeq(chars, 1, Min({3, Len(chars)})), ""))

\* C25: _get_railway_station_code answers every name: with the name trimmed and in
\* lower case, a city of the metro table gives its code and use_all_stations true,
\* a city of the single-station table its code and false, any other name its first
\* three characters that are not spaces, in capitals, and false, "STN" when there
\* are none; the code is never empty.
C25_StationCodeLookup ==
    call.op = "_get_railway_station_code" /\ ret # NoRet
        => LET name == IF call.city = None THEN "" ELSE Lower(Strip(call.city[1]))
           IN  /\ ret.station_code # ""
               /\ name \in Keys(all_stations_cities)
                      => /\ ret.station_code = Get(all_stations_cities, name)
                         /\ ret.use_all_stations = TRUE
               /\ name \in Keys(single_station_cities) \ Keys(all_stations_cities)
                      => /\ ret.station_code = Get(single_station_cities, name)
                         /\ ret.use_all_stations = FALSE
               /\ name \notin Keys(all_stations_cities) \cup Keys(single_station_cities)
                      => /\ ret.station_code = IF FirstThree(name) = "" THEN "STN"
                                               ELSE FirstThree(name)
                         /\ ret.use_all_stations = FALSE

\* " MUMBAI " gave CSMT, a metro code
C25_Witness ==
    /\ call.op = "_get_railway_station_code"
    /\ call.city = Some(" MUMBAI ")
    /\ ret # NoRet
    /\ ret.station_code = "CSMT"
    /\ ret.use_all_stations = TRUE

\* C26: in every state of a TrainBookingFlow that calls of fetch_trains,
\* select_train and select_coach reach, a selected_coach that is set is one of the
\* coaches_available of the selected train, and the selected train is a train of
\* the catalog; so a get_booking_summary that succeeds pairs a train with a class
\* that the train offers.
C26_SelectionConsistent ==
    /\ flow.selected_coach # None
           => /\ flow.selected_train # None
              /\ flow.selected_coach[1] \in Elements(flow.selected_train[1].coaches_available)
              /\ flow.selected_train[1] \in Elements(flow.trains)
    /\ call.op = "get_booking_summary" /\ ret.status = "success"
           => flow.selected_coach[1] \in Elements(flow.selected_train[1].coaches_available)

\* the card passes every filter of get_trains_easemytrip: the length, the page
\* chrome, the train number, the two times
PassesFilters(card) ==
    /\ Len(Join(card.nodes, " ")) >= MinCardTextLen
    /\ ~AnyKeyword(Join(card.nodes, " "),
                   {"search", "filter", "sort", "javascript", "search trains"})
    /\ CardNumber(card) # None
    /\ Len(ClockNodes(card)) >= 2

\* C27: in get_trains_easemytrip a train number counts as seen only once a card with
\* it has been accepted: when the loop ends below the limit of 20, every card that
\* passes all the filters has a train of its number in the list, also when an
\* earlier card of that number was skipped for having fewer than two times.
C27_SeenOnlyWhenAccepted ==
    scrape.pc = "done" /\ Len(scrape.st.trains) < TrainLimit
        => \A k \in 1..Len(scrape.st.train_cards) :
               PassesFilters(scrape.st.train_cards[k])
                   => CardNumber(scrape.st.train_cards[k])[1] \in TrainNumbers(scrape.st.trains)

(***************************************************************************)
(* TrainBookingHandler and book_train_interactive                          *)
(* (train_booking_handler.py)                                              *)
(***************************************************************************)

\* TrainBookingHandler() inside book_train_interactive(url, train_index): browser,
\* context and page are None ("none"), later "open" or "closed"; raised is the
\* call whose exception leaves _book, result the dict it returns
NewHandler(url, train_index) ==
    [pc |-> "initialize",
     url |-> url,
     train_index |-> train_index,
     browser |-> "none",
     context |-> "none",
     page |-> "none",
     trains |-> 0,
     result |-> None,
     raised |-> None]

\* the calls of initialize, in their order, any of which may raise
InitializeCalls == <<"start", "launch", "new_context", "new_page">>

\* the numbers of train cards that a page may show
CardsOnPage == {0, 1, 3}

\* "await handler.initialize()": the browser, the context and the page are opened in
\* turn until a call raises; an exception leaves the try block for the finally
Initialize ==
    /\ handler.pc = "initialize"
    /\ \E done \in 0..Len(InitializeCalls) :
         handler' = [handler EXCEPT
                       !.browser = IF done >= 2 THEN "open" ELSE @,
                       !.context = IF done >= 3 THEN "open" ELSE @,
                       !.page = IF done >= 4 THEN "open" ELSE @,
                       !.raised = IF done < Len(InitializeCalls)
                                  THEN Some(InitializeCalls[done + 1]) ELSE @,
                       !.pc = IF done < Len(InitializeCalls)
                              THEN "close_page" ELSE "navigate"]
    /\ UNCHANGED <<flow, call, ret, confirmed, reselected, orch, pw, scrape, gateway>>

\* "if not await handler.navigate_to_trains(url)": goto succeeds or its exception
\* is caught and the flow returns an error
NavigateToTrains ==
    /\ handler.pc = "navigate"
    /\ \E loaded \in BOOLEAN :
         handler' = IF loaded
                    THEN [handler EXCEPT !.pc = "get_all_trains"]
                    ELSE [handler EXCEPT
                            !.pc = "close_page",
                            !.result = Some([status |-> "error",
                                             error |-> "Failed to navigate to URL"])]
    /\ UNCHANGED <<flow, call, ret, confirmed, reselected, orch, pw, scrape, gateway>>

\* "trains = await handler.get_all_trains()" and "if not trains"
GetAllTrains ==
    /\ handler.pc = "get_all_trains"
    /\ \E trains \in CardsOnPage :
         handler' = IF trains > 0
                    THEN [handler EXCEPT !.pc = "select_train", !.trains = trains]
                    ELSE [handler EXCEPT
                            !.pc = "close_page",
                            !.result = Some([status |-> "error",
                                             error |-> "No trains found on page"])]
    /\ UNCHANGED <<flow, call, ret, confirmed, reselected, orch, pw, scrape, gateway>>

\* "if not await handler.select_train(train_index)": some ":nth-child(train_index)"
\* selector finds an element and the click succeeds, or none does; nth-child counts
\* from 1, so that an index below 1 finds nothing
HandlerSelectTrain ==
    /\ handler.pc = "select_train"
    /\ \E clicked \in BOOLEAN :
         /\ clicked => handler.train_index >= 1
         /\ handler' = IF clicked
                       THEN [handler EXCEPT !.pc = "proceed_to_booking"]
                       ELSE [handler EXCEPT
                               !.pc = "close_page",
                               !.result = Some([status |-> "error",
                                                error |-> "Could not select train at index "
                                                          \o ToString(handler.train_index)])]
    /\ UNCHANGED <<flow, call, ret, confirmed, reselected, orch, pw, scrape, gateway>>

\* "result = await handler.proceed_to_booking()", get_booking_summary and
\* "return result"
ProceedToBooking ==
    /\ handler.pc = "proceed_to_booking"
    /\ \E status \in {"success", "no_button_found"}, summary \in {None, Some(handler.url)} :
         handler' = [handler EXCEPT
                       !.pc = "close_page",
                       !.result = Some([status |-> status, summary |-> summary])]
    /\ UNCHANGED <<flow, call, ret, confirmed, reselected, orch, pw, scrape, gateway>>

\* close, in the finally block: "if self.page: await self.page.close()"; an
\* exception of the call leaves close and _book
ClosePage ==
    /\ handler.pc = "close_page"
    /\ \E raises \in BOOLEAN :
         /\ raises => handler.page = "open"
         /\ handler' = IF raises
                       THEN [handler EXCEPT !.pc = "exited", !.raised = Some("page.close")]
                       ELSE [handler EXCEPT
                               !.pc = "close_context",
                               !.page = IF @ = "open" THEN "closed" ELSE @]
    /\ UNCHANGED <<flow, call, ret, confirmed, reselected, orch, pw, scrape, gateway>>

\* "if self.context: await self.context.close()"
CloseContext ==
    /\ handler.pc = "close_context"
    /\ \E raises \in BOOLEAN :
         /\ raises => handler.context = "open"
         /\ handler' = IF raises
                       THEN [handler EXCEPT !.pc = "exited", !.raised = Some("context.close")]
                       ELSE [handler EXCEPT
                               !.pc = "close_browser",
                               !.context = IF @ = "open" THEN "closed" ELSE @]
    /\ UNCHANGED <<flow, call, ret, confirmed, reselected, orch, pw, scrape, gateway>>

\* "if self.browser: await self.browser.close()", after which _book returns its
\* result or raises the exception of the try block
CloseBrowser ==
    /\ handler.pc = "close_browser"
    /\ \E raises \in BOOLEAN :
         /\ raises => handler.browser = "open"
         /\ handler' = IF raises
                       THEN [handler EXCEPT !.pc = "exited", !.raised = Some("browser.close")]
                       ELSE [handler EXCEPT
                               !.pc = "exited",
                               !.browser = IF @ = "open" THEN "closed" ELSE @]
    /\ UNCHANGED <<flow, call, ret, confirmed, reselected, orch, pw, scrape, gateway>>

\* book_train_interactive(url, train_index) is called
InitHandler ==
    /\ handler \in {NewHandler(url, train_index) :
                        url \in {ListingUrl}, train_index \in TrainIndexes}
    /\ flow = NewFlow
    /\ call = NoCall
    /\ ret = NoRet
    /\ confirmed = None
    /\ reselected = FALSE
    /\ orch = NewOrchestrator
    /\ pw = NoPw
    /\ scrape = NoScrape
    /\ gateway = NoGateway

NextHandler ==
    \/ Initialize
    \/ NavigateToTrains
    \/ GetAllTrains
    \/ HandlerSelectTrain
    \/ ProceedToBooking
    \/ ClosePage
    \/ CloseContext
    \/ CloseBrowser

SpecHandler == InitHandler /\ [][NextHandler]_vars

\* C30: book_train_interactive releases the browser on every exit path: once
\* initialize has launched a browser, then when the flow has returned or raised,
\* also when the close of the page or of the context raised inside
\* TrainBookingHandler.close, the browser has been closed.
C30_BrowserReleased ==
    /\ handler.pc = "exited"
    /\ handler.browser # "none"
    /\ handler.raised # Some("browser.close")
    => handler.browser = "closed"

====
